---------------------------- MODULE Spec2Model ----------------------------
(***************************************************************************)
(* Line-framed JSON transport of cinema4d-mcp: the socket server's         *)
(* per-connection loop and dispatcher (c4d_plugin/cinema4d_socket_plugin.py *)
(* and addon.py) and the one-shot client (src/cinema4d_mcp/server.py).     *)
(*                                                                         *)
(* Text is a sequence of characters, a character a one-character string;   *)
(* "U+E9" is the one non-ASCII character of the alphabet, "U+08" and       *)
(* "U+0C" are backspace and form feed.  Bytes are the same tokens, except  *)
(* that "U+E9" is the two bytes "0xC3" "0xA9".  A Python exception is a    *)
(* result record with ok = FALSE.                                          *)
(***************************************************************************)
EXTENDS Naturals, Sequences, FiniteSets, TLC

(***************************************************************************)
(* UTF-8: bytes.decode('utf-8') and str.encode('utf-8')                    *)
(***************************************************************************)
\* The concatenation of the sequences pieces[lo..hi].
RECURSIVE concat_range(_, _, _)
concat_range(pieces, lo, hi) ==
    IF lo > hi THEN <<>>
    ELSE IF lo = hi THEN pieces[lo]
    ELSE LET mid == (lo + hi) \div 2
         IN  concat_range(pieces, lo, mid) \o concat_range(pieces, mid + 1, hi)

concat(pieces) == concat_range(pieces, 1, Len(pieces))

\* The first place of x in seq from place i on, 0 when there is none.
index_of(seq, x, i) ==
    IF \E k \in i..Len(seq) : seq[k] = x
    THEN CHOOSE k \in i..Len(seq) :
            seq[k] = x /\ \A j \in i..(k - 1) : seq[j] # x
    ELSE 0

\* ASCII text is its own encoding.
utf8_encode(text) ==
    IF \A i \in 1..Len(text) : text[i] # "U+E9" THEN text
    ELSE concat([i \in 1..Len(text) |->
                    IF text[i] = "U+E9" THEN <<"0xC3", "0xA9">> ELSE <<text[i]>>])

\* Strict decoding: a lead byte without its continuation byte, or a
\* continuation byte on its own, is a UnicodeDecodeError.
utf8_decode(b) ==
    IF \A i \in 1..Len(b) : b[i] \notin {"0xC3", "0xA9"}
    THEN [ok |-> TRUE, text |-> b]
    ELSE IF \A i \in 1..Len(b) :
          /\ b[i] = "0xC3" => (i < Len(b) /\ b[i + 1] = "0xA9")
          /\ b[i] = "0xA9" => (i > 1 /\ b[i - 1] = "0xC3")
    THEN [ok |-> TRUE,
          text |-> concat([i \in 1..Len(b) |->
                              IF b[i] = "0xC3" THEN <<"U+E9">>
                              ELSE IF b[i] = "0xA9" THEN <<>>
                              ELSE <<b[i]>>])]
    ELSE [ok |-> FALSE, text |-> <<>>]

(***************************************************************************)
(* JSON values: <<tag, payload>>.  A mapping keeps its items, <<key,       *)
(* value>> pairs, in insertion order, as a Python dict does.               *)
(***************************************************************************)
JStr(chars) == <<"str", chars>>
JNum(n)     == <<"num", n>>
JLit(name)  == <<"lit", name>>
JArr(items) == <<"arr", items>>
JObj(items) == <<"obj", items>>
JFlt(text)  == <<"flt", text>>    \* a float, kept as the text of its repr

Tag(val)     == val[1]
Payload(val) == val[2]

RECURSIVE dict_index(_, _, _)
dict_index(items, key, i) ==
    IF i > Len(items) THEN 0
    ELSE IF items[i][1] = key THEN i ELSE dict_index(items, key, i + 1)

\* d[key] = value on a dict: a key already there keeps its place.
dict_set(items, key, value) ==
    LET i == dict_index(items, key, 1)
    IN  IF i = 0 THEN Append(items, <<key, value>>)
        ELSE [items EXCEPT ![i] = <<key, value>>]

\* key in d
dict_has(d, key) == dict_index(Payload(d), key, 1) # 0

\* d.get(key, default)
dict_get(d, key, default) ==
    LET i == dict_index(Payload(d), key, 1)
    IN  IF i = 0 THEN default ELSE Payload(d)[i][2]

\* not val
falsy(val) ==
    CASE Tag(val) = "num" -> Payload(val) = 0
      [] Tag(val) = "flt" -> \A i \in 1..Len(Payload(val)) : Payload(val)[i] \in {"0", "."}
      [] Tag(val) = "lit" -> Payload(val) # "true"
      [] OTHER            -> Len(Payload(val)) = 0

(***************************************************************************)
(* json.loads                                                              *)
(***************************************************************************)
JsonWS == {" ", "\t", "\n", "\r"}
Digits == <<"0", "1", "2", "3", "4", "5", "6", "7", "8", "9">>
HexLetters == <<"a", "b", "c", "d", "e", "f">>
HexCapitals == <<"A", "B", "C", "D", "E", "F">>
ControlChars == {"\n", "\t", "\r", "U+08", "U+0C"}

IsDigit(c) == index_of(Digits, c, 1) # 0
DigitVal(c) == index_of(Digits, c, 1) - 1
IsHex(c) == IsDigit(c) \/ index_of(HexLetters, c, 1) # 0
                       \/ index_of(HexCapitals, c, 1) # 0
HexVal(c) ==
    IF IsDigit(c) THEN DigitVal(c)
    ELSE IF index_of(HexLetters, c, 1) # 0 THEN 9 + index_of(HexLetters, c, 1)
    ELSE 9 + index_of(HexCapitals, c, 1)

\* The characters of the alphabet that have a \uXXXX form, by code point.
chr(code) ==
    CASE code = 233 -> "U+E9"
      [] code = 10  -> "\n"
      [] code = 13  -> "\r"
      [] code = 9   -> "\t"
      [] code = 8   -> "U+08"
      [] code = 12  -> "U+0C"
      [] code = 120 -> "x"
      [] OTHER      -> "U+FFFD"

ParseFail == [ok |-> FALSE, v |-> JLit("null"), n |-> 0]

RECURSIVE skip_ws(_, _)
skip_ws(s, i) ==
    IF i <= Len(s) /\ s[i] \in JsonWS THEN skip_ws(s, i + 1) ELSE i

\* How many backslashes stand right before place i, not before place lo.
backslashes_before(s, lo, i) ==
    IF \E k \in lo..(i - 1) : s[k] # "\\"
    THEN i - 1 - (CHOOSE k \in lo..(i - 1) :
                     s[k] # "\\" /\ \A j \in (k + 1)..(i - 1) : s[j] = "\\")
    ELSE i - lo

\* Place i of a string literal's body (from lo) is not the second character
\* of an escape.
unescaped(s, lo, i) == backslashes_before(s, lo, i) % 2 = 0

\* The text an escape at place i (a backslash) stands for; <<>> when the
\* escape is no JSON escape.
unescape(s, hi, i) ==
    LET e == IF i + 1 <= hi THEN s[i + 1] ELSE ""
    IN  IF e \in {"\"", "\\", "/"} THEN <<e>>
        ELSE IF e = "n" THEN <<"\n">>
        ELSE IF e = "r" THEN <<"\r">>
        ELSE IF e = "t" THEN <<"\t">>
        ELSE IF e = "b" THEN <<"U+08">>
        ELSE IF e = "f" THEN <<"U+0C">>
        ELSE IF e = "u" /\ i + 5 <= hi /\ \A k \in 2..5 : IsHex(s[i + k])
             THEN <<chr(HexVal(s[i + 2]) * 4096 + HexVal(s[i + 3]) * 256
                        + HexVal(s[i + 4]) * 16 + HexVal(s[i + 5]))>>
        ELSE <<>>

\* The scanner of a string literal, lo the place after the opening quote:
\* the body ends at the first quote that no backslash escapes.
scan_string(s, lo) ==
    LET closing == {q \in lo..Len(s) : s[q] = "\"" /\ unescaped(s, lo, q)}
    IN  IF closing = {} THEN ParseFail
        ELSE LET q == CHOOSE x \in closing : \A y \in closing : x <= y
                 hi == q - 1
                 starts == {i \in lo..hi : s[i] = "\\" /\ unescaped(s, lo, i)}
                 \* the places an escape covers after its backslash
                 covered == {i \in lo..hi :
                               \E b \in starts :
                                  /\ b < i
                                  /\ i <= b + (IF s[b + 1] = "u" THEN 5 ELSE 1)}
             IN  IF \/ \E i \in lo..hi : s[i] \in ControlChars
                    \/ \E b \in starts : unescape(s, hi, b) = <<>>
                 THEN ParseFail
                 ELSE IF starts = {}
                 THEN [ok |-> TRUE, n |-> q + 1, v |-> SubSeq(s, lo, hi)]
                 ELSE [ok |-> TRUE, n |-> q + 1,
                       v |-> concat([k \in 1..(hi - lo + 1) |->
                                 LET i == lo + k - 1
                                 IN  IF i \in starts THEN unescape(s, hi, i)
                                     ELSE IF i \in covered THEN <<>>
                                     ELSE <<s[i]>>])]

RECURSIVE scan_int(_, _, _)
scan_int(s, i, acc) ==
    IF i <= Len(s) /\ IsDigit(s[i])
    THEN scan_int(s, i + 1, acc * 10 + DigitVal(s[i]))
    ELSE [ok |-> TRUE, v |-> JNum(acc), n |-> i]

\* The first place from i on that holds no digit.
digits_end(s, i) ==
    IF \E k \in i..Len(s) : ~IsDigit(s[k])
    THEN CHOOSE k \in i..Len(s) :
            ~IsDigit(s[k]) /\ \A j \in i..(k - 1) : IsDigit(s[j])
    ELSE Len(s) + 1

\* The digits of a fraction as float's repr writes them: no trailing zero
\* after the first digit.
fraction_repr(digits) ==
    LET keep == CHOOSE k \in 1..Len(digits) :
                   /\ k = 1 \/ digits[k] # "0"
                   /\ \A j \in (k + 1)..Len(digits) : digits[j] = "0"
    IN  SubSeq(digits, 1, keep)

\* A number at place i, which holds a digit: an integer without a leading
\* zero, then a fraction or none.  The lines of this model hold no sign
\* and no exponent.
scan_number(s, i) ==
    LET whole == IF s[i] = "0" THEN [ok |-> TRUE, v |-> JNum(0), n |-> i + 1]
                 ELSE scan_int(s, i, 0)
        e == digits_end(s, whole.n + 1)
    IN  IF whole.n > Len(s) \/ s[whole.n] # "." THEN whole
        ELSE IF e = whole.n + 1 THEN ParseFail
        ELSE [ok |-> TRUE, n |-> e,
              v |-> JFlt(SubSeq(s, i, whole.n)
                         \o fraction_repr(SubSeq(s, whole.n + 1, e - 1)))]

\* Whether the characters of word stand at place i of s.
starts_with(s, i, word) ==
    /\ i + Len(word) - 1 <= Len(s)
    /\ \A k \in 1..Len(word) : s[i + k - 1] = word[k]

W_true  == <<"t", "r", "u", "e">>
W_false == <<"f", "a", "l", "s", "e">>
W_null  == <<"n", "u", "l", "l">>

\* The floats that are no number, as JSON text and as their repr.  json.loads
\* reads the words NaN and Infinity, and json.dumps writes them (allow_nan),
\* though JSON has no such values.
W_NaN      == <<"N", "a", "N">>
W_Infinity == <<"I", "n", "f", "i", "n", "i", "t", "y">>
W_nan      == <<"n", "a", "n">>
W_inf      == <<"i", "n", "f">>

RECURSIVE parse_value(_, _)
RECURSIVE parse_members(_, _, _)
RECURSIVE parse_elements(_, _, _)

\* One JSON value at place i (the whitespace before it skipped).
parse_value(s, i) ==
    IF i > Len(s) THEN ParseFail
    ELSE IF s[i] = "\""
         THEN LET r == scan_string(s, i + 1)
              IN  IF r.ok THEN [ok |-> TRUE, v |-> JStr(r.v), n |-> r.n]
                  ELSE ParseFail
    ELSE IF s[i] = "{"
         THEN LET j == skip_ws(s, i + 1)
              IN  IF j <= Len(s) /\ s[j] = "}"
                  THEN [ok |-> TRUE, v |-> JObj(<<>>), n |-> j + 1]
                  ELSE parse_members(s, j, <<>>)
    ELSE IF s[i] = "["
         THEN LET j == skip_ws(s, i + 1)
              IN  IF j <= Len(s) /\ s[j] = "]"
                  THEN [ok |-> TRUE, v |-> JArr(<<>>), n |-> j + 1]
                  ELSE parse_elements(s, j, <<>>)
    ELSE IF IsDigit(s[i]) THEN scan_number(s, i)
    ELSE IF starts_with(s, i, W_true)
         THEN [ok |-> TRUE, v |-> JLit("true"), n |-> i + 4]
    ELSE IF starts_with(s, i, W_false)
         THEN [ok |-> TRUE, v |-> JLit("false"), n |-> i + 5]
    ELSE IF starts_with(s, i, W_null)
         THEN [ok |-> TRUE, v |-> JLit("null"), n |-> i + 4]
    ELSE IF starts_with(s, i, W_NaN)
         THEN [ok |-> TRUE, v |-> JFlt(W_nan), n |-> i + 3]
    ELSE IF starts_with(s, i, W_Infinity)
         THEN [ok |-> TRUE, v |-> JFlt(W_inf), n |-> i + 8]
    ELSE ParseFail

\* The members of an object from place i, which must hold a key's quote.
parse_members(s, i, acc) ==
    IF i > Len(s) \/ s[i] # "\"" THEN ParseFail
    ELSE LET k == scan_string(s, i + 1)
         IN  IF ~k.ok THEN ParseFail
             ELSE LET c == skip_ws(s, k.n)
                  IN  IF c > Len(s) \/ s[c] # ":" THEN ParseFail
                      ELSE LET r == parse_value(s, skip_ws(s, c + 1))
                           IN  IF ~r.ok THEN ParseFail
                               ELSE LET e == skip_ws(s, r.n)
                                        items == dict_set(acc, k.v, r.v)
                                    IN  IF e > Len(s) THEN ParseFail
                                        ELSE IF s[e] = "}"
                                             THEN [ok |-> TRUE, v |-> JObj(items), n |-> e + 1]
                                        ELSE IF s[e] = ","
                                             THEN parse_members(s, skip_ws(s, e + 1), items)
                                        ELSE ParseFail

\* The elements of an array from place i.
parse_elements(s, i, acc) ==
    LET r == parse_value(s, i)
    IN  IF ~r.ok THEN ParseFail
        ELSE LET e == skip_ws(s, r.n)
                 items == Append(acc, r.v)
             IN  IF e > Len(s) THEN ParseFail
                 ELSE IF s[e] = "]"
                      THEN [ok |-> TRUE, v |-> JArr(items), n |-> e + 1]
                 ELSE IF s[e] = ","
                      THEN parse_elements(s, skip_ws(s, e + 1), items)
                 ELSE ParseFail

\* json.loads(s): one value, whitespace around it allowed, nothing after it.
json_loads(s) ==
    LET r == parse_value(s, skip_ws(s, 1))
    IN  IF r.ok /\ skip_ws(s, r.n) > Len(s) THEN [ok |-> TRUE, v |-> r.v]
        ELSE [ok |-> FALSE, v |-> JLit("null")]

(***************************************************************************)
(* json.dumps, with its defaults: ", " and ": " between items, and         *)
(* ensure_ascii, under which no raw control or non-ASCII character is      *)
(* written                                                                 *)
(***************************************************************************)
RECURSIVE int_digits(_)
int_digits(n) ==
    IF n < 10 THEN <<Digits[n + 1]>>
    ELSE int_digits(n \div 10) \o <<Digits[(n % 10) + 1]>>

\* An encoder that escapes the quote and the backslash only.
escape_char_plain(c) ==
    CASE c = "\""   -> <<"\\", "\"">>
      [] c = "\\"   -> <<"\\", "\\">>
      [] OTHER      -> <<c>>

\* json.dumps of one character of a string (ensure_ascii)
escape_char(c) ==
    CASE c = "\""   -> <<"\\", "\"">>
      [] c = "\\"   -> <<"\\", "\\">>
      [] c = "\n"   -> <<"\\", "n">>
      [] c = "\r"   -> <<"\\", "r">>
      [] c = "\t"   -> <<"\\", "t">>
      [] c = "U+08" -> <<"\\", "b">>
      [] c = "U+0C" -> <<"\\", "f">>
      [] c = "U+E9" -> <<"\\", "u", "0", "0", "e", "9">>
      [] OTHER      -> <<c>>

escape_chars(chars) ==
    IF \A i \in 1..Len(chars) : escape_char(chars[i]) = <<chars[i]>> THEN chars
    ELSE concat([i \in 1..Len(chars) |-> escape_char(chars[i])])

encode_string(chars) == <<"\"">> \o escape_chars(chars) \o <<"\"">>

RECURSIVE json_dumps(_)
RECURSIVE dumps_items(_, _, _)

\* The items of a list (keyed = FALSE) or of a dict, from the i-th on.
dumps_items(items, i, keyed) ==
    IF i > Len(items) THEN <<>>
    ELSE (IF i > 1 THEN <<",", " ">> ELSE <<>>)
         \o (IF keyed
             THEN encode_string(items[i][1]) \o <<":", " ">> \o json_dumps(items[i][2])
             ELSE json_dumps(items[i]))
         \o dumps_items(items, i + 1, keyed)

json_dumps(val) ==
    CASE Tag(val) = "str" -> encode_string(Payload(val))
      [] Tag(val) = "num" -> int_digits(Payload(val))
      [] Tag(val) = "flt" -> (CASE Payload(val) = W_nan -> W_NaN
                             [] Payload(val) = W_inf -> W_Infinity
                             [] OTHER -> Payload(val))
      [] Tag(val) = "lit" -> (CASE Payload(val) = "true" -> W_true
                             [] Payload(val) = "false" -> W_false
                             [] OTHER -> W_null)
      [] Tag(val) = "arr" -> <<"[">> \o dumps_items(Payload(val), 1, FALSE) \o <<"]">>
      [] OTHER         -> <<"{">> \o dumps_items(Payload(val), 1, TRUE) \o <<"}">>

(***************************************************************************)
(* str(x) inside an f-string: a string is its own text, a number its       *)
(* digits, None/True/False the Python names, a container its repr.         *)
(***************************************************************************)
RECURSIVE py_repr(_)
RECURSIVE repr_items(_, _, _)

repr_items(items, i, keyed) ==
    IF i > Len(items) THEN <<>>
    ELSE (IF i > 1 THEN <<",", " ">> ELSE <<>>)
         \o (IF keyed
             THEN <<"'">> \o items[i][1] \o <<"'", ":", " ">> \o py_repr(items[i][2])
             ELSE py_repr(items[i]))
         \o repr_items(items, i + 1, keyed)

py_repr(val) ==
    CASE Tag(val) = "str" -> <<"'">> \o Payload(val) \o <<"'">>
      [] Tag(val) = "num" -> int_digits(Payload(val))
      [] Tag(val) = "flt" -> Payload(val)
      [] Tag(val) = "lit" -> (CASE Payload(val) = "true" -> <<"T", "r", "u", "e">>
                             [] Payload(val) = "false" -> <<"F", "a", "l", "s", "e">>
                             [] OTHER -> <<"N", "o", "n", "e">>)
      [] Tag(val) = "arr" -> <<"[">> \o repr_items(Payload(val), 1, FALSE) \o <<"]">>
      [] OTHER         -> <<"{">> \o repr_items(Payload(val), 1, TRUE) \o <<"}">>

py_str(val) == IF Tag(val) = "str" THEN Payload(val) ELSE py_repr(val)

(***************************************************************************)
(* The strings of the program                                              *)
(***************************************************************************)
S_get_scene_info == <<"g", "e", "t", "_", "s", "c", "e", "n", "e", "_", "i", "n", "f", "o">>
S_add_primitive == <<"a", "d", "d", "_", "p", "r", "i", "m", "i", "t", "i", "v", "e">>
S_modify_object == <<"m", "o", "d", "i", "f", "y", "_", "o", "b", "j", "e", "c", "t">>
S_list_objects == <<"l", "i", "s", "t", "_", "o", "b", "j", "e", "c", "t", "s">>
S_create_material == <<"c", "r", "e", "a", "t", "e", "_", "m", "a", "t", "e", "r", "i", "a", "l">>
S_apply_material == <<"a", "p", "p", "l", "y", "_", "m", "a", "t", "e", "r", "i", "a", "l">>
S_render_frame == <<"r", "e", "n", "d", "e", "r", "_", "f", "r", "a", "m", "e">>
S_set_keyframe == <<"s", "e", "t", "_", "k", "e", "y", "f", "r", "a", "m", "e">>
S_save_scene == <<"s", "a", "v", "e", "_", "s", "c", "e", "n", "e">>
S_load_scene == <<"l", "o", "a", "d", "_", "s", "c", "e", "n", "e">>
S_execute_python == <<"e", "x", "e", "c", "u", "t", "e", "_", "p", "y", "t", "h", "o", "n">>
S_command == <<"c", "o", "m", "m", "a", "n", "d">>
S_error == <<"e", "r", "r", "o", "r">>
S_unknown_command == <<"U", "n", "k", "n", "o", "w", "n", " ", "c", "o", "m", "m", "a", "n", "d", ":", " ">>
S_error_processing == <<"E", "r", "r", "o", "r", " ", "p", "r", "o", "c", "e", "s", "s", "i", "n", "g", " ", "c", "o", "m", "m", "a", "n", "d", ":", " ">>
S_scene_info == <<"s", "c", "e", "n", "e", "_", "i", "n", "f", "o">>
S_object_count == <<"o", "b", "j", "e", "c", "t", "_", "c", "o", "u", "n", "t">>
S_objects == <<"o", "b", "j", "e", "c", "t", "s">>
S_object == <<"o", "b", "j", "e", "c", "t">>
S_name == <<"n", "a", "m", "e">>
S_type == <<"t", "y", "p", "e">>
S_id == <<"i", "d">>
S_position == <<"p", "o", "s", "i", "t", "i", "o", "n">>
S_cube == <<"c", "u", "b", "e">>
S_obj_12345 == <<"o", "b", "j", "_", "1", "2", "3", "4", "5">>
S_result == <<"r", "e", "s", "u", "l", "t">>
S_object_not_found == <<"O", "b", "j", "e", "c", "t", " ", "n", "o", "t", " ", "f", "o", "u", "n", "d", ":", " ">>
S_no_attribute == <<"'", "C", "4", "D", "S", "o", "c", "k", "e", "t", "S", "e", "r", "v", "e", "r", "'", " ", "o", "b", "j", "e", "c", "t", " ", "h", "a", "s", " ", "n", "o", " ", "a", "t", "t", "r", "i", "b", "u", "t", "e", " ", "'", "h", "a", "n", "d", "l", "e", "_", "m", "o", "d", "i", "f", "y", "_", "o", "b", "j", "e", "c", "t", "'">>
S_filename == <<"f", "i", "l", "e", "n", "a", "m", "e">>
S_polygon_count == <<"p", "o", "l", "y", "g", "o", "n", "_", "c", "o", "u", "n", "t">>
S_material_count == <<"m", "a", "t", "e", "r", "i", "a", "l", "_", "c", "o", "u", "n", "t">>
S_current_frame == <<"c", "u", "r", "r", "e", "n", "t", "_", "f", "r", "a", "m", "e">>
S_fps == <<"f", "p", "s">>
S_frame_start == <<"f", "r", "a", "m", "e", "_", "s", "t", "a", "r", "t">>
S_frame_end == <<"f", "r", "a", "m", "e", "_", "e", "n", "d">>
S_untitled == <<"U", "n", "t", "i", "t", "l", "e", "d", " ", "1">>
S_size == <<"s", "i", "z", "e">>
S_sphere == <<"s", "p", "h", "e", "r", "e">>
S_cone == <<"c", "o", "n", "e">>
S_cylinder == <<"c", "y", "l", "i", "n", "d", "e", "r">>
S_plane == <<"p", "l", "a", "n", "e">>
S_unknown_primitive == <<"U", "n", "k", "n", "o", "w", "n", " ", "p", "r", "i", "m", "i", "t", "i", "v", "e", " ", "t", "y", "p", "e", ":", " ">>
S_guid == <<"4", "1", "7", "6", "9", "1", "3", "2", "1", "6">>
S_object_name == <<"o", "b", "j", "e", "c", "t", "_", "n", "a", "m", "e">>
S_properties == <<"p", "r", "o", "p", "e", "r", "t", "i", "e", "s">>
S_success == <<"s", "u", "c", "c", "e", "s", "s">>
S_material == <<"m", "a", "t", "e", "r", "i", "a", "l">>
S_Material == <<"M", "a", "t", "e", "r", "i", "a", "l">>
S_color == <<"c", "o", "l", "o", "r">>
S_material_name == <<"m", "a", "t", "e", "r", "i", "a", "l", "_", "n", "a", "m", "e">>
S_material_not_found == <<"M", "a", "t", "e", "r", "i", "a", "l", " ", "n", "o", "t", " ", "f", "o", "u", "n", "d", ":", " ">>
S_output_path == <<"o", "u", "t", "p", "u", "t", "_", "p", "a", "t", "h">>
S_width == <<"w", "i", "d", "t", "h">>
S_height == <<"h", "e", "i", "g", "h", "t">>
S_render_failed == <<"R", "e", "n", "d", "e", "r", " ", "f", "a", "i", "l", "e", "d">>
S_render_info == <<"r", "e", "n", "d", "e", "r", "_", "i", "n", "f", "o">>
S_path == <<"p", "a", "t", "h">>
S_render_time == <<"r", "e", "n", "d", "e", "r", "_", "t", "i", "m", "e">>
S_file_path == <<"f", "i", "l", "e", "_", "p", "a", "t", "h">>
S_save_info == <<"s", "a", "v", "e", "_", "i", "n", "f", "o">>
S_dot_c4d == <<".", "c", "4", "d">>
S_failed_to_save == <<"F", "a", "i", "l", "e", "d", " ", "t", "o", " ", "s", "a", "v", "e", " ", "s", "c", "e", "n", "e", " ", "t", "o", " ">>
S_os_not_defined == <<"n", "a", "m", "e", " ", "'", "o", "s", "'", " ", "i", "s", " ", "n", "o", "t", " ", "d", "e", "f", "i", "n", "e", "d">>
S_script == <<"s", "c", "r", "i", "p", "t">>
S_error_colon == <<"E", "r", "r", "o", "r", ":", " ">>
Upper == <<"A", "B", "C", "D", "E", "F", "G", "H", "I", "J", "K", "L", "M", "N", "O", "P", "Q", "R", "S", "T", "U", "V", "W", "X", "Y", "Z">>
Lower == <<"a", "b", "c", "d", "e", "f", "g", "h", "i", "j", "k", "l", "m", "n", "o", "p", "q", "r", "s", "t", "u", "v", "w", "x", "y", "z">>

(***************************************************************************)
(* The Handler Registry.  The handlers call into the host application: a   *)
(* call returns one of the values the handler's code can return, or the    *)
(* host API raises.  An outcome is <<"return", response>> or <<"raise",    *)
(* message>>.                                                              *)
(***************************************************************************)
PluginHandlers ==
    <<S_get_scene_info, S_add_primitive, S_modify_object, S_list_objects,
      S_create_material, S_apply_material, S_render_frame, S_set_keyframe,
      S_save_scene, S_load_scene, S_execute_python>>

AddonHandlers == <<S_get_scene_info, S_add_primitive, S_modify_object>>

\* str(e) of a failure in a handler: it may hold any character.
HostFailure == <<"n", "o", "\n", "U+E9", "\"">>

error_response(text) == JObj(<< <<S_error, JStr(text)>> >>)

\* text.lower()
lower(text) ==
    [i \in 1..Len(text) |->
        IF index_of(Upper, text[i], 1) = 0 THEN text[i]
        ELSE Lower[index_of(Upper, text[i], 1)]]

\* float(x) of a number
to_float(val) ==
    IF Tag(val) = "num" THEN JFlt(int_digits(Payload(val)) \o <<".", "0">>)
    ELSE val

is_number(val) == Tag(val) \in {"num", "flt"}

\* Whether the first n items of val are numbers: val[0], ..., val[n-1]
\* can be read and passed to the host as numbers.
numbers_at(val, n) ==
    /\ Tag(val) = "arr"
    /\ Len(Payload(val)) >= n
    /\ \A i \in 1..n : is_number(Payload(val)[i])

\* c4d.Vector(*val) takes three numbers.
is_vector(val) == numbers_at(val, 3) /\ Len(Payload(val)) = 3

\* [v.x, v.y, v.z] of the vector made of the first three items of val
vector_of(val) == JArr([i \in 1..3 |-> to_float(Payload(val)[i])])

(***************************************************************************)
(* The handlers.  The host is Cinema 4D with an untitled document that has *)
(* no objects and no materials.  Each operator is the set of values the    *)
(* handler can return for a command; the set is empty when the handler     *)
(* can only raise.                                                         *)
(***************************************************************************)
handle_get_scene_info ==
    {JObj(<< <<S_scene_info,
               JObj(<< <<S_filename, JStr(S_untitled)>>,
                       <<S_object_count, JNum(0)>>,
                       <<S_polygon_count, JNum(0)>>,
                       <<S_material_count, JNum(0)>>,
                       <<S_current_frame, JNum(0)>>,
                       <<S_fps, JNum(30)>>,
                       <<S_frame_start, JNum(0)>>,
                       <<S_frame_end, JNum(90)>> >>)>> >>)}

\* How many items of size the primitive's branch reads.
size_read(primitive_type) ==
    IF primitive_type = S_cube THEN 3
    ELSE IF primitive_type = S_sphere THEN 1
    ELSE 2

handle_add_primitive(command) ==
    LET type == dict_get(command, S_type, JStr(S_cube))
    IN  IF Tag(type) # "str" THEN {}
        ELSE LET primitive_type == lower(Payload(type))
                 name == dict_get(command, S_name, JStr(primitive_type))
                 position == dict_get(command, S_position,
                                      JArr(<<JNum(0), JNum(0), JNum(0)>>))
                 size == dict_get(command, S_size,
                                  JArr(<<JNum(100), JNum(100), JNum(100)>>))
             IN  IF primitive_type \notin {S_cube, S_sphere, S_cone, S_cylinder, S_plane}
                 THEN {error_response(S_unknown_primitive \o primitive_type)}
                 ELSE IF \/ ~numbers_at(size, size_read(primitive_type))
                         \/ (primitive_type = S_cube /\ ~is_vector(size))
                         \/ ~is_vector(position)
                         \/ Tag(name) # "str"
                 THEN {}
                 ELSE {JObj(<< <<S_object,
                                 JObj(<< <<S_name, name>>,
                                         <<S_id, JStr(S_guid)>>,
                                         <<S_position, vector_of(position)>> >>)>> >>)}

\* find_object_by_name finds nothing in a document without objects.
object_not_found(command) ==
    {error_response(S_object_not_found
                    \o py_str(dict_get(command, S_object_name, JStr(<<>>))))}

handle_modify_object(command) == object_not_found(command)

handle_list_objects == {JObj(<< <<S_objects, JArr(<<>>)>> >>)}

handle_create_material(command) ==
    LET name == dict_get(command, S_name, JStr(S_Material))
        color == dict_get(command, S_color, JArr(<<JNum(1), JNum(1), JNum(1)>>))
        properties == dict_get(command, S_properties, JObj(<<>>))
        \* the color of a new material, when the command's is not set
        untouched == JArr(<<JFlt(<<"0", ".", "8">>), JFlt(<<"0", ".", "8">>),
                            JFlt(<<"0", ".", "8">>)>>)
    IN  IF \/ Tag(name) # "str"
           \/ Tag(color) \notin {"arr", "str", "obj"}
           \/ (Len(Payload(color)) >= 3 /\ ~numbers_at(color, 3))
           \/ Tag(properties) # "obj"
        THEN {}
        ELSE {JObj(<< <<S_material,
                        JObj(<< <<S_id, JStr(S_guid)>>,
                                <<S_name, name>>,
                                <<S_color, IF Len(Payload(color)) >= 3
                                           THEN vector_of(color)
                                           ELSE untouched>> >>)>> >>)}

\* find_material_by_name finds nothing in a document without materials.
handle_apply_material(command) ==
    {error_response(S_material_not_found
                    \o py_str(dict_get(command, S_material_name, JStr(<<>>))))}

\* The render gives no bitmap, or a bitmap of the size set, 1280 x 720
\* when the command sets none, after half a second.
handle_render_frame(command) ==
    LET output_path == dict_get(command, S_output_path, JLit("null"))
        width == dict_get(command, S_width, JLit("null"))
        height == dict_get(command, S_height, JLit("null"))
        none == JLit("null")
    IN  IF \/ (width # none /\ Tag(width) # "num")
           \/ (height # none /\ Tag(height) # "num")
           \/ (output_path # none /\ Tag(output_path) # "str")
        THEN {}
        ELSE {error_response(S_render_failed),
              JObj(<< <<S_render_info,
                        JObj(<< <<S_path, IF output_path = none THEN JStr(<<>>)
                                          ELSE output_path>>,
                                <<S_width, IF width = none THEN JNum(1280) ELSE width>>,
                                <<S_height, IF height = none THEN JNum(720) ELSE height>>,
                                <<S_render_time, JFlt(<<"0", ".", "5">>)>> >>)>> >>)}

handle_set_keyframe(command) == object_not_found(command)

\* text.endswith(tail)
ends_with(text, tail) ==
    /\ Len(tail) <= Len(text)
    /\ SubSeq(text, Len(text) - Len(tail) + 1, Len(text)) = tail

\* Without a file_path the handler reads os.path, and the plugin does not
\* import os: it can only raise.
handle_save_scene(command) ==
    LET file_path == dict_get(command, S_file_path, JLit("null"))
    IN  IF falsy(file_path) \/ Tag(file_path) # "str" THEN {}
        ELSE LET path == IF ends_with(lower(Payload(file_path)), S_dot_c4d)
                         THEN Payload(file_path)
                         ELSE Payload(file_path) \o S_dot_c4d
             IN  {JObj(<< <<S_save_info,
                             JObj(<< <<S_path, JStr(path)>>,
                                     <<S_success, JLit("true")>> >>)>> >>),
                  error_response(S_failed_to_save \o path)}

\* os.path.exists is the handler's first call on the host, and the plugin
\* does not import os: it can only raise.
handle_load_scene(command) == {}

\* The script prints nothing, or it raises and the handler catches it.
handle_execute_python(command) ==
    {JObj(<< <<S_result, JStr(<<>>)>> >>),
     JObj(<< <<S_result, JStr(S_error_colon \o HostFailure)>> >>)}

\* What the handler of a name returns in the plugin.
handler_returns(name, command) ==
    CASE name = S_get_scene_info  -> handle_get_scene_info
      [] name = S_add_primitive   -> handle_add_primitive(command)
      [] name = S_modify_object   -> handle_modify_object(command)
      [] name = S_list_objects    -> handle_list_objects
      [] name = S_create_material -> handle_create_material(command)
      [] name = S_apply_material  -> handle_apply_material(command)
      [] name = S_render_frame    -> handle_render_frame(command)
      [] name = S_set_keyframe    -> handle_set_keyframe(command)
      [] name = S_save_scene      -> handle_save_scene(command)
      [] name = S_load_scene      -> handle_load_scene(command)
      [] OTHER                    -> handle_execute_python(command)

\* The messages the handler of a name can raise with in the plugin: a
\* failure of the host API or of the handler's reading of a field, or the
\* NameError of os; execute_python catches what its script raises.
handler_raises(name, command) ==
    IF name = S_execute_python THEN {}
    ELSE IF name = S_load_scene THEN {S_os_not_defined}
    ELSE IF name = S_save_scene /\ falsy(dict_get(command, S_file_path, JLit("null")))
    THEN {HostFailure, S_os_not_defined}
    ELSE {HostFailure}

\* addon.py's handle_add_primitive: a mock response built from the command.
addon_handle_add_primitive(command) ==
    LET primitive_type == dict_get(command, S_type, JStr(S_cube))
    IN  JObj(<< <<S_object, JObj(<< <<S_name, dict_get(command, S_name, primitive_type)>>,
                                    <<S_id, JStr(S_obj_12345)>>,
                                    <<S_position, dict_get(command, S_position,
                                          JArr(<<JNum(0), JNum(0), JNum(0)>>))>> >>)>> >>)

\* The outcomes a handler call can have.
handler_outcomes(server, name, command) ==
    IF server = "addon" /\ name = S_add_primitive
    THEN {<<"return", addon_handle_add_primitive(command)>>}
    ELSE IF server = "addon" /\ name = S_modify_object
    THEN {<<"raise", S_no_attribute>>}      \* addon.py defines no such method
    ELSE {<<"return", r>> : r \in handler_returns(name, command)}
         \cup {<<"raise", message>> : message \in handler_raises(name, command)}

(***************************************************************************)
(* C4DSocketServer.process_command                                         *)
(***************************************************************************)
\* command.get("command", ""): a value that is no dict has no get.
command_type_of(command) == dict_get(command, S_command, JStr(<<>>))

\* A chain that compares the names without regard to case.
route_folded(server, command_type) ==
    IF Tag(command_type) # "str" THEN 0
    ELSE index_of(IF server = "plugin" THEN PluginHandlers ELSE AddonHandlers,
                  lower(Payload(command_type)), 1)

\* The branch of the if/elif chain a command takes: the place of its handler
\* in the chain, 0 for the final else.
route(server, command_type) ==
    IF Tag(command_type) # "str" THEN 0
    ELSE index_of(IF server = "plugin" THEN PluginHandlers ELSE AddonHandlers,
                  Payload(command_type), 1)

\* A final else that leaves the value out of its message.
unknown_command_unnamed(command_type) == error_response(S_unknown_command)

\* return {"error": f"Unknown command: {command_type}"}
unknown_command(command_type) ==
    error_response(S_unknown_command \o py_str(command_type))

\* The if/elif chain of process_command, and around it the plugin's
\* try/except, when the handler it routes to has the given outcome:
\* [raised, response, handler].  raised: the call raises into handle_client.
dispatch(server, command_type, outcome) ==
    LET h == route(server, command_type)
    IN  IF h = 0
        THEN [raised |-> FALSE, response |-> unknown_command(command_type),
              handler |-> 0]
        ELSE IF outcome[1] = "return"
        THEN [raised |-> FALSE, response |-> outcome[2], handler |-> h]
        ELSE IF server = "plugin"
        THEN [raised |-> FALSE, handler |-> h,
              response |-> error_response(S_error_processing \o outcome[2])]
        ELSE [raised |-> TRUE, response |-> JLit("null"), handler |-> h]

NotDispatched == [raised |-> TRUE, response |-> JLit("null"), handler |-> 0]

\* A process_command that reads command["command"]: a KeyError without the
\* field.
process_command_strict(server, command, outcome) ==
    IF Tag(command) # "obj" \/ ~dict_has(command, S_command) THEN NotDispatched
    ELSE dispatch(server, command_type_of(command), outcome)

\* A process_command that answers a value that is no dict as an unknown
\* command.
process_command_lenient(server, command, outcome) ==
    IF Tag(command) # "obj"
    THEN [raised |-> FALSE, response |-> unknown_command(JStr(<<>>)),
          handler |-> 0]
    ELSE dispatch(server, command_type_of(command), outcome)

\* command.get raises on a value that is no dict, before the try.
process_command(server, command, outcome) ==
    IF Tag(command) # "obj" THEN NotDispatched
    ELSE dispatch(server, command_type_of(command), outcome)

\* The outcomes the handler of a command can have; one idle outcome when no
\* handler is called.
NoCall == <<"none", <<>>>>
outcomes_of(server, command) ==
    IF Tag(command) # "obj" THEN {NoCall}
    ELSE LET h == route(server, command_type_of(command))
         IN  IF h = 0 THEN {NoCall}
             ELSE handler_outcomes(server,
                      (IF server = "plugin" THEN PluginHandlers ELSE AddonHandlers)[h],
                      command)

(***************************************************************************)
(* The server side of one accepted connection: C4DSocketServer.handle_client *)
(***************************************************************************)
VARIABLES
    impl,         \* which server runs: "plugin" or "addon"
    running,      \* self.running
    pc,           \* the handler's place: loop, recv, extract, send, close, done
    sent,         \* the lines the client sends on the connection, as places in Lines
    stream,       \* their bytes: every byte the client sends on the connection
    rcvd,         \* how many of them recv has returned so far
    buffer,       \* handle_client's buffer, text
    response,     \* the response process_command returned, not yet sent
    out,          \* the byte strings written by sendall, in order
    client_open,  \* the accepted socket is not closed yet
    calls,        \* the calls of process_command so far: [command, outcome, result]
    exit,         \* why the loop was left, "" while it runs
    cpc,          \* the tool invocation's place: enter, body, send, recv, parse, format, exit, done
    peer,         \* what the peer sends on the tool's connection, a place in PeerStreams
    peer_rcvd,    \* how many of its bytes the tool's recv has returned so far
    sock,         \* the socket c4d_connection_context created: none, open, closed
    conn_sock,    \* connection.sock is set
    connected,    \* connection.connected
    yields,       \* how many times c4d_connection_context has yielded
    requests,     \* the byte strings send_to_c4d passed to sendall, in order
    response_data,\* send_to_c4d's response_data, bytes
    result,       \* what send_to_c4d returned, NoResult before it returns
    tool,         \* how the tool invocation ended: [raised, text]
    fault,        \* the transport failure met: "", refused, timeout, send, recv
    history,      \* the tool invocations that are over: [sock, connected, requests, raised]
    cur,          \* which handler thread pc to exit are the locals of
    parked,       \* the locals of the other handler threads, by thread
    sys_stdout,   \* sys.stdout, the one of the process
    ex,           \* the calls of handle_execute_python, by thread: [pc, old_stdout, runs]
    doc,          \* the host's active document: objects, materials, time, render data
    scene_log,    \* the commands run on the host: [command, before, res, response, after]
    socket_server,\* the module's global socket_server: 0 for None, else the instance,
                  \* numbered in the order the instances are made
    main_calls,   \* how many times main has been called
    lsock,        \* self.socket, the listening socket: none, listening, unbound, closed
    apc,          \* accept_connections' place: none, test, call, accept, exited
    spc,          \* stop's place: idle, cleared, stopped
    log,          \* the lines the listener has printed, in order
    accepted      \* how many clients accept has returned

server_vars == <<impl, running, pc, sent, stream, rcvd, buffer, response, out,
                 client_open, calls, exit>>

client_vars == <<cpc, peer, peer_rcvd, sock, conn_sock, connected, yields,
                 requests, response_data, result, tool, fault, history>>

exec_vars == <<sys_stdout, ex>>
host_vars == <<doc, scene_log>>
main_vars == <<socket_server, main_calls>>
handler_vars == <<cur, parked, exec_vars, host_vars, main_vars>>
listener_vars == <<lsock, apc, spc, log, accepted, handler_vars>>

vars == <<server_vars, client_vars, listener_vars>>

\* The size argument of client.recv.
RecvSize == 4096

\* How many lines a client sends on one connection.
MaxMsgs == 2

L_scene == <<"{", "\"", "c", "o", "m", "m", "a", "n", "d", "\"", ":", "\"", "g", "e", "t", "_", "s", "c", "e", "n", "e", "_", "i", "n", "f", "o", "\"", "}">>
L_accent == <<"{", "\"", "c", "o", "m", "m", "a", "n", "d", "\"", ":", "\"", "U+E9", "\"", "}">>
L_nocommand == <<"{", "\"", "a", "\"", ":", "1", "}">>
L_notjson == <<"{", "x", "}">>
L_list == <<"[", "]">>
L_nan == <<"{", "\"", "c", "o", "m", "m", "a", "n", "d", "\"", ":", "\"", "a", "d", "d", "_", "p", "r", "i", "m", "i", "t", "i", "v", "e", "\"", ",", "\"", "p", "o", "s", "i", "t", "i", "o", "n", "\"", ":", "[", "N", "a", "N", ",", "0", ",", "0", "]", "}">>

\* The lines a client may send: a command with a handler, a command without
\* (its name a two-byte character), a mapping without the command field,
\* text that is no JSON, a JSON value that is no mapping, and a command
\* whose handler puts a float of the command into its response.
Lines == <<L_scene, L_accent, L_nocommand, L_notjson, L_list, L_nan>>

join_lines(choice) ==
    concat([i \in 1..Len(choice) |-> Lines[choice[i]] \o <<"\n">>])

Choices == UNION {[1..n -> 1..Len(Lines)] : n \in 1..MaxMsgs}

\* send_to_c4d has not returned.
NoResult == <<"none", <<>>>>

\* The tool invocation has not ended.
NoOutcome == [raised |-> FALSE, text |-> <<>>]

\* No tool is invoked.
client_idle ==
    /\ cpc = "done"
    /\ peer = 1
    /\ peer_rcvd = 0
    /\ sock = "none"
    /\ conn_sock = FALSE
    /\ connected = FALSE
    /\ yields = 0
    /\ requests = <<>>
    /\ response_data = <<>>
    /\ result = NoResult
    /\ tool = NoOutcome
    /\ fault = ""
    /\ history = <<>>

\* The stream sys.stdout is when the plugin is loaded.
Console == <<0, 0>>

\* No script is executed.
exec_idle ==
    /\ sys_stdout = Console
    /\ ex = <<>>

\* A new document of the host: untitled, without objects and materials, at
\* frame 0, with render data of 1280 x 720 and no output path.
NewDocument ==
    [name |-> S_untitled, objects |-> <<>>, materials |-> <<>>, time |-> JNum(0),
     xres |-> JNum(1280), yres |-> JNum(720), path |-> JStr(<<>>)]

\* No command has run on the host.
host_idle ==
    /\ doc = NewDocument
    /\ scene_log = <<>>

\* The plugin is loaded and main has not been called: socket_server = None
main_idle ==
    /\ socket_server = 0
    /\ main_calls = 0

\* No listener is started.
listener_idle ==
    /\ lsock = "none"
    /\ apc = "none"
    /\ spc = "idle"
    /\ log = <<>>
    /\ accepted = 0
    /\ cur = 1
    /\ parked = <<>>
    /\ exec_idle
    /\ host_idle
    /\ main_idle

Init ==
    /\ client_idle
    /\ listener_idle
    /\ impl \in {"plugin", "addon"}
    /\ running = TRUE
    /\ pc = "loop"
    /\ sent \in Choices
    /\ stream = utf8_encode(join_lines(sent))
    /\ rcvd = 0
    /\ buffer = <<>>
    /\ response = JLit("null")
    /\ out = <<>>
    /\ client_open = TRUE
    /\ calls = <<>>
    /\ exit = ""

\* A way out of the loop that passes by the close.
leave_open(reason) == pc' = "done" /\ exit' = reason

\* break, or the end of the while loop: on to client.close().
leave(reason) == pc' = "close" /\ exit' = reason

\* A loop that does not look at the flag.
handle_client_loop_forever ==
    /\ pc = "loop"
    /\ pc' = "recv"
    /\ UNCHANGED <<client_vars, listener_vars, impl, running, sent, stream, rcvd, buffer, response, out,
                   client_open, calls, exit>>

\* while self.running:
handle_client_loop ==
    /\ pc = "loop"
    /\ IF running THEN pc' = "recv" /\ exit' = exit ELSE leave("stopped")
    /\ UNCHANGED <<client_vars, listener_vars, impl, running, sent, stream, rcvd, buffer, response, out,
                   client_open, calls>>

\* data = client.recv(4096) returns n bytes; buffer += data.decode('utf-8')
handle_client_recv(n) ==
    /\ pc = "recv"
    /\ n \in 1..RecvSize
    /\ rcvd + n <= Len(stream)
    /\ LET data == utf8_decode(SubSeq(stream, rcvd + 1, rcvd + n))
       IN  IF data.ok
           THEN buffer' = buffer \o data.text /\ pc' = "extract" /\ exit' = exit
           ELSE buffer' = buffer /\ leave("decode")
    /\ rcvd' = rcvd + n
    /\ UNCHANGED <<client_vars, listener_vars, impl, running, sent, stream, response, out, client_open, calls>>

\* A handler that takes what is left in its buffer for a line when the
\* peer has closed.
handle_client_eof_flush ==
    /\ pc = "recv"
    /\ rcvd = Len(stream)
    /\ IF buffer = <<>>
       THEN leave("eof") /\ buffer' = buffer
       ELSE buffer' = Append(buffer, "\n") /\ pc' = "extract" /\ exit' = exit
    /\ UNCHANGED <<client_vars, listener_vars, impl, running, sent, stream, rcvd, response, out,
                   client_open, calls>>

\* recv returns b"": the client has sent everything and closed. if not data: break
handle_client_eof ==
    /\ pc = "recv"
    /\ rcvd = Len(stream)
    /\ leave("eof")
    /\ UNCHANGED <<client_vars, listener_vars, impl, running, sent, stream, rcvd, buffer, response, out,
                   client_open, calls>>

\* recv raises (the connection was reset)
handle_client_recv_error ==
    /\ pc = "recv"
    /\ leave("recv")
    /\ UNCHANGED <<client_vars, listener_vars, impl, running, sent, stream, rcvd, buffer, response, out,
                   client_open, calls>>

\* message, buffer = buffer.split('\n', 1)
first_newline(text) == index_of(text, "\n", 1)
split_message(text) == SubSeq(text, 1, first_newline(text) - 1)
\* A split that leaves the message in the buffer.
split_rest_whole(text) == text

split_rest(text) == SubSeq(text, first_newline(text) + 1, Len(text))

\* One pass of the inner loop, `while '\n' in buffer:`, up to the response,
\* or the end of the loop; on_bad_json is what a line that is no JSON leads
\* to.
extract_pass(on_bad_json) ==
    /\ pc = "extract"
    /\ IF first_newline(buffer) = 0
       THEN /\ pc' = "loop"
            /\ UNCHANGED <<buffer, response, calls, exit>>
       ELSE LET command == json_loads(split_message(buffer))
            IN  /\ buffer' = split_rest(buffer)
                /\ IF ~command.ok
                   THEN on_bad_json /\ UNCHANGED <<response, calls>>
                   ELSE \E outcome \in outcomes_of(impl, command.v) :
                          LET r == process_command(impl, command.v, outcome)
                          IN  /\ calls' = Append(calls, [command |-> command.v,
                                                         outcome |-> outcome,
                                                         result |-> r])
                              /\ IF r.raised
                                 THEN leave("dispatch") /\ response' = response
                                 ELSE /\ response' = r.response
                                      /\ pc' = "send"
                                      /\ exit' = exit
    /\ UNCHANGED <<client_vars, listener_vars, impl, running, sent, stream, rcvd, out, client_open>>

\* A handler that skips a line that is no JSON and goes on with the next.
handle_client_extract_resync == extract_pass(pc' = "extract" /\ exit' = exit)

\* json.loads raises into the except of handle_client: break.
handle_client_extract == extract_pass(leave("json"))

\* The write of the pending response; written is out with the line in it.
send_pass(written) ==
    /\ pc = "send"
    /\ out' = written
    /\ pc' = "extract"
    /\ UNCHANGED <<client_vars, listener_vars, impl, running, sent, stream, rcvd, buffer, response,
                   client_open, calls, exit>>

response_line == utf8_encode(json_dumps(response) \o <<"\n">>)

\* A handler that goes on without writing the response.
handle_client_send_skipped == send_pass(out)

\* A handler whose responses overtake the ones written before.
handle_client_send_front == send_pass(<<response_line>> \o out)

\* client.sendall((json.dumps(response) + '\n').encode('utf-8'))
handle_client_send == send_pass(Append(out, response_line))

\* sendall raises (the client is gone)
handle_client_send_error ==
    /\ pc = "send"
    /\ leave("send")
    /\ UNCHANGED <<client_vars, listener_vars, impl, running, sent, stream, rcvd, buffer, response, out,
                   client_open, calls>>

\* A handler that shuts the server down when it closes its connection.
handle_client_close_all ==
    /\ pc = "close"
    /\ client_open' = FALSE
    /\ pc' = "done"
    /\ running' = FALSE
    /\ UNCHANGED <<client_vars, listener_vars, impl, sent, stream, rcvd, buffer, response, out, calls, exit>>

\* client.close()
handle_client_close ==
    /\ pc = "close"
    /\ client_open' = FALSE
    /\ pc' = "done"
    /\ UNCHANGED <<client_vars, listener_vars, impl, running, sent, stream, rcvd, buffer, response, out, calls, exit>>

\* C4DSocketServer.stop, from another thread
stop ==
    /\ running
    /\ running' = FALSE
    /\ UNCHANGED <<client_vars, listener_vars, impl, pc, sent, stream, rcvd, buffer, response, out, client_open,
                   calls, exit>>

Next ==
    \/ handle_client_loop
    \/ \E n \in 1..(Len(stream) - rcvd) : handle_client_recv(n)
    \/ handle_client_eof
    \/ handle_client_recv_error
    \/ handle_client_extract
    \/ handle_client_send
    \/ handle_client_send_error
    \/ handle_client_close
    \/ stop

Spec == Init /\ [][Next]_vars

(***************************************************************************)
(* The client connector of the MCP server: c4d_connection_context,         *)
(* send_to_c4d, and the tool list_objects that uses them.  The peer is     *)
(* whatever listens on the port: it sends the bytes of one of PeerStreams  *)
(* and closes.                                                             *)
(***************************************************************************)
S_communication_error == <<"C", "o", "m", "m", "u", "n", "i", "c", "a", "t", "i", "o", "n", " ", "e", "r", "r", "o", "r", ":", " ">>
S_not_connected == <<"N", "o", "t", " ", "c", "o", "n", "n", "e", "c", "t", "e", "d", " ", "t", "o", " ", "C", "i", "n", "e", "m", "a", " ", "4", "D">>
S_tool_not_connected == <<"U+274C", " ", "N", "o", "t", " ", "c", "o", "n", "n", "e", "c", "t", "e", "d", " ", "t", "o", " ", "C", "i", "n", "e", "m", "a", " ", "4", "D">>
S_tool_error == <<"U+274C", " ", "E", "r", "r", "o", "r", ":", " ">>
S_no_objects == <<"N", "o", " ", "o", "b", "j", "e", "c", "t", "s", " ", "f", "o", "u", "n", "d", " ", "i", "n", " ", "t", "h", "e", " ", "s", "c", "e", "n", "e", ".">>
S_objects_in_scene == <<"\n", " ", " ", " ", " ", "#", " ", "O", "b", "j", "e", "c", "t", "s", " ", "i", "n", " ", "S", "c", "e", "n", "e", " ", "(">>
S_broken_pipe == <<"[", "E", "r", "r", "n", "o", " ", "3", "2", "]", " ", "B", "r", "o", "k", "e", "n", " ", "p", "i", "p", "e">>
S_timed_out == <<"t", "i", "m", "e", "d", " ", "o", "u", "t">>
S_cant_decode == <<"'", "u", "t", "f", "-", "8", "'", " ", "c", "o", "d", "e", "c", " ", "c", "a", "n", "'", "t", " ", "d", "e", "c", "o", "d", "e">>
S_expecting_value == <<"E", "x", "p", "e", "c", "t", "i", "n", "g", " ", "v", "a", "l", "u", "e">>
S_didnt_stop == <<"g", "e", "n", "e", "r", "a", "t", "o", "r", " ", "d", "i", "d", "n", "'", "t", " ", "s", "t", "o", "p", " ", "a", "f", "t", "e", "r", " ", "a", "t", "h", "r", "o", "w", "(", ")">>
P_malformed == <<"{", "x", "}", "\n">>
P_array == <<"[", "]", "\n">>
P_partial == <<"{", "\"", "o", "b", "j", "e", "c", "t", "s", "\"", ":", " ", "[">>
P_raw == <<"{", "\"", "U+E9", "\"", ":", " ", "1", "}", "\n">>
P_cut == <<"{", "\"">>

\* The size argument of connection.sock.recv.
ClientRecvSize == 4096

\* The command list_objects sends.
list_objects_command == JObj(<<<<S_command, JStr(S_list_objects)>>>>)

\* The responses a peer may send as one line: the empty scene, a failure
\* whose message needs escapes, a scene of one object, an object without a
\* type, and a mapping written with a raw two-byte character.
R_empty == JObj(<<<<S_objects, JArr(<<>>)>>>>)
R_failed == JObj(<<<<S_error, JStr(HostFailure)>>>>)
R_scene == JObj(<<<<S_objects, JArr(<<JObj(<<<<S_name, JStr(<<"U+E9">>)>>, <<S_type, JStr(S_cube)>>>>)>>)>>>>)
R_untyped == JObj(<<<<S_objects, JArr(<<JObj(<<<<S_name, JStr(S_cube)>>>>)>>)>>>>)
R_raw == JObj(<<<<<<"U+E9">>, JNum(1)>>>>)

PeerMappings == <<R_empty, R_failed, R_scene, R_untyped, R_raw>>

\* (json.dumps(response) + '\n').encode('utf-8'), as both servers write it
wire_line(val) == utf8_encode(json_dumps(val) \o <<"\n">>)

\* What the peer sends: each mapping of PeerMappings as one line; then a
\* line that is JSON but no mapping, a line that is no JSON, a message cut
\* off before its newline, nothing at all, a message cut off inside a
\* two-byte character, two lines at once, a mapping cut off just before its
\* newline, and once more the message cut off before its newline.
PeerStreams ==
    <<wire_line(R_empty), wire_line(R_failed), wire_line(R_scene),
      wire_line(R_untyped), utf8_encode(P_raw),
      P_array, P_malformed, P_partial, <<>>, P_cut \o <<"0xC3">>,
      wire_line(R_empty) \o wire_line(R_failed),
      utf8_encode(json_dumps(R_empty)), P_partial>>

\* The peers that keep the connection open after their bytes; the others
\* close it.
SilentPeers == {13}

\* The streams that hold no line that is a JSON mapping.
NoMappingStreams == {6, 7, 8, 9, 10}

peer_bytes == PeerStreams[peer]

\* No connection is served.
server_idle ==
    /\ impl = "plugin"
    /\ running = FALSE
    /\ pc = "done"
    /\ sent = <<>>
    /\ stream = <<>>
    /\ rcvd = 0
    /\ buffer = <<>>
    /\ response = JLit("null")
    /\ out = <<>>
    /\ client_open = FALSE
    /\ calls = <<>>
    /\ exit = ""

InitClient ==
    /\ listener_idle
    /\ history = <<>>
    /\ impl = "plugin"
    /\ running = FALSE
    /\ pc = "done"
    /\ sent = <<>>
    /\ stream = <<>>
    /\ rcvd = 0
    /\ buffer = <<>>
    /\ response = JLit("null")
    /\ out = <<>>
    /\ client_open = FALSE
    /\ calls = <<>>
    /\ exit = ""
    /\ cpc = "enter"
    /\ peer \in 1..Len(PeerStreams)
    /\ peer_rcvd = 0
    /\ sock = "none"
    /\ conn_sock = FALSE
    /\ connected = FALSE
    /\ yields = 0
    /\ requests = <<>>
    /\ response_data = <<>>
    /\ result = NoResult
    /\ tool = NoOutcome
    /\ fault = ""

\* sock = socket.socket(...); sock.connect(...) succeeds; connection.sock =
\* sock; connection.connected = True; yield connection
ctx_connect ==
    /\ cpc = "enter"
    /\ sock' = "open"
    /\ conn_sock' = TRUE
    /\ connected' = TRUE
    /\ yields' = yields + 1
    /\ cpc' = "body"
    /\ UNCHANGED <<server_vars, listener_vars, history, peer, peer_rcvd, requests, response_data,
                   result, tool, fault>>

\* sock.connect raises (refused, or timed out): the except clause sets
\* connection.connected = False and yields; connection.sock stays None.
ctx_connect_error(reason) ==
    /\ cpc = "enter"
    /\ sock' = "open"
    /\ connected' = FALSE
    /\ yields' = yields + 1
    /\ fault' = reason
    /\ cpc' = "body"
    /\ UNCHANGED <<server_vars, listener_vars, history, peer, peer_rcvd, conn_sock, requests,
                   response_data, result, tool>>

returns(text) == [raised |-> FALSE, text |-> text]
raises(name) == [raised |-> TRUE, text |-> name]

\* if not connection.connected: return "... Not connected to Cinema 4D"
list_objects_enter ==
    /\ cpc = "body"
    /\ IF connected
       THEN cpc' = "send" /\ tool' = tool
       ELSE cpc' = "exit" /\ tool' = returns(S_tool_not_connected)
    /\ UNCHANGED <<server_vars, listener_vars, history, peer, peer_rcvd, sock, conn_sock, connected,
                   yields, requests, response_data, result, fault>>

\* {"error": f"Communication error: {str(e)}"}
communication_error(message) ==
    JObj(<<<<S_error, JStr(S_communication_error \o message)>>>>)

\* send_to_c4d up to the receive loop: the guard, which holds when
\* disconnected does, then connection.sock.sendall(command_json.encode('utf-8'))
sendall_pass(disconnected) ==
    /\ cpc = "send"
    /\ IF disconnected
       THEN /\ result' = JObj(<<<<S_error, JStr(S_not_connected)>>>>)
            /\ cpc' = "format"
            /\ UNCHANGED requests
       ELSE /\ requests' = Append(requests, wire_line(list_objects_command))
            /\ cpc' = "recv"
            /\ UNCHANGED result
    /\ UNCHANGED <<server_vars, listener_vars, history, peer, peer_rcvd, sock, conn_sock, connected,
                   yields, response_data, tool, fault>>

\* A send_to_c4d that gives up only when both the flag and the socket are
\* missing.
send_to_c4d_sendall_either == sendall_pass(~connected /\ ~conn_sock)

\* if not connection.connected or not connection.sock: return {"error": ...}
send_to_c4d_sendall == sendall_pass(~connected \/ ~conn_sock)

\* sendall raises and the except clause returns reply.
sendall_raises(reply) ==
    /\ cpc = "send"
    /\ connected /\ conn_sock
    /\ fault' = "send"
    /\ result' = reply
    /\ cpc' = "format"
    /\ UNCHANGED <<server_vars, listener_vars, history, peer, peer_rcvd, sock, conn_sock, connected,
                   yields, requests, response_data, tool>>

\* An except clause that returns a fixed text.
send_to_c4d_sendall_error_mute == sendall_raises(communication_error(<<>>))

\* except Exception as e: return {"error": f"Communication error: {str(e)}"}
send_to_c4d_sendall_error == sendall_raises(communication_error(S_broken_pipe))

\* One pass of the receive loop; more is whether the loop goes on after a
\* chunk without a newline.
recv_pass(n, more) ==
    /\ cpc = "recv"
    /\ n \in 1..ClientRecvSize
    /\ peer_rcvd + n <= Len(peer_bytes)
    /\ LET chunk == SubSeq(peer_bytes, peer_rcvd + 1, peer_rcvd + n)
       IN  /\ response_data' = response_data \o chunk
           /\ cpc' = IF index_of(chunk, "\n", 1) # 0 \/ ~more THEN "parse"
                     ELSE "recv"
    /\ peer_rcvd' = peer_rcvd + n
    /\ UNCHANGED <<server_vars, listener_vars, history, peer, sock, conn_sock, connected, yields,
                   requests, result, tool, fault>>

\* A send_to_c4d that takes the first chunk for the whole response.
send_to_c4d_recv_once(n) == recv_pass(n, FALSE)

\* chunk = connection.sock.recv(4096) returns n bytes; response_data +=
\* chunk; if b'\n' in chunk: break
send_to_c4d_recv(n) == recv_pass(n, TRUE)

\* recv returns b"": the peer has sent everything and closed. if not chunk:
\* break
send_to_c4d_recv_eof ==
    /\ cpc = "recv"
    /\ peer \notin SilentPeers
    /\ peer_rcvd = Len(peer_bytes)
    /\ cpc' = "parse"
    /\ UNCHANGED <<server_vars, listener_vars, history, peer, peer_rcvd, sock, conn_sock, connected,
                   yields, requests, response_data, result, tool, fault>>

\* A send_to_c4d that sends its command again when recv has failed.
send_to_c4d_recv_error_retry ==
    /\ cpc = "recv"
    /\ fault' = "recv"
    /\ cpc' = IF fault = "" THEN "send" ELSE "format"
    /\ result' = IF fault = "" THEN result ELSE communication_error(S_timed_out)
    /\ UNCHANGED <<server_vars, listener_vars, history, peer, peer_rcvd, sock, conn_sock, connected,
                   yields, requests, response_data, tool>>

\* recv raises (timed out, or the connection was reset)
send_to_c4d_recv_error ==
    /\ cpc = "recv"
    /\ fault' = "recv"
    /\ result' = communication_error(S_timed_out)
    /\ cpc' = "format"
    /\ UNCHANGED <<server_vars, listener_vars, history, peer, peer_rcvd, sock, conn_sock, connected,
                   yields, requests, response_data, tool>>

\* The characters str.strip() removes.
PyWS == {" ", "\t", "\n", "\r", "U+0C"}

\* text.strip()
strip(text) ==
    IF \A i \in 1..Len(text) : text[i] \in PyWS THEN <<>>
    ELSE LET lo == CHOOSE i \in 1..Len(text) :
                     text[i] \notin PyWS /\ \A j \in 1..(i - 1) : text[j] \in PyWS
             hi == CHOOSE i \in 1..Len(text) :
                     text[i] \notin PyWS /\ \A j \in (i + 1)..Len(text) : text[j] \in PyWS
         IN  SubSeq(text, lo, hi)

\* response_text = response_data.decode('utf-8').strip();
\* return json.loads(response_text); a failure of either is caught and
\* returned as a communication error.
parse_response(data) ==
    LET decoded == utf8_decode(data)
    IN  IF ~decoded.ok THEN communication_error(S_cant_decode)
        ELSE LET loaded == json_loads(strip(decoded.text))
             IN  IF loaded.ok THEN loaded.v
                 ELSE communication_error(S_expecting_value)

\* parse_response of everything response_data can hold, the bytes a peer
\* sends up to some place, computed once.
KnownParses ==
    UNION {{<<SubSeq(PeerStreams[p], 1, k), parse_response(SubSeq(PeerStreams[p], 1, k))>> :
               k \in 0..Len(PeerStreams[p])} :
           p \in 1..Len(PeerStreams)}

\* parse_response, looked up where it is known.
response_of(data) ==
    IF \E known \in KnownParses : known[1] = data
    THEN (CHOOSE known \in KnownParses : known[1] = data)[2]
    ELSE parse_response(data)

send_to_c4d_parse ==
    /\ cpc = "parse"
    /\ result' = response_of(response_data)
    /\ cpc' = "format"
    /\ UNCHANGED <<server_vars, listener_vars, history, peer, peer_rcvd, sock, conn_sock, connected,
                   yields, requests, response_data, tool, fault>>

\* f"- **{obj['name']}** ({obj['type']})"
object_line(obj) ==
    <<"-", " ", "*", "*">> \o py_str(dict_get(obj, S_name, JLit("null")))
        \o <<"*", "*", " ", "(">> \o py_str(dict_get(obj, S_type, JLit("null")))
        \o <<")">>

\* What obj['name'], obj['type'] raise on obj, "" when they raise nothing.
object_failure(obj) ==
    IF Tag(obj) # "obj" THEN "TypeError"
    ELSE IF ~dict_has(obj, S_name) \/ ~dict_has(obj, S_type) THEN "KeyError"
    ELSE ""

\* The text list_objects returns for a list of well-formed objects.
objects_text(items) ==
    S_objects_in_scene \o int_digits(Len(items)) \o <<")", "\n", " ", " ", " ", " ">>
        \o concat([i \in 1..Len(items) |->
                     (IF i = 1 THEN <<>> ELSE <<"\n">>) \o object_line(items[i])])
        \o <<"\n", " ", " ", " ", " ">>

\* The body of list_objects after send_to_c4d has returned reply.
list_objects_body(reply) ==
    CASE Tag(reply) \in {"num", "lit"} -> raises("TypeError")
      [] Tag(reply) = "str" ->
            IF \E i \in 1..Len(Payload(reply)) :
                  starts_with(Payload(reply), i, S_error)
            THEN raises("TypeError") ELSE raises("AttributeError")
      [] Tag(reply) = "arr" ->
            IF \E i \in 1..Len(Payload(reply)) :
                  /\ Tag(Payload(reply)[i]) = "str"
                  /\ Payload(Payload(reply)[i]) = S_error
            THEN raises("TypeError") ELSE raises("AttributeError")
      [] OTHER ->
            IF dict_has(reply, S_error)
            THEN returns(S_tool_error \o py_str(dict_get(reply, S_error, JLit("null"))))
            ELSE LET objects == dict_get(reply, S_objects, JArr(<<>>))
                 IN  IF falsy(objects) THEN returns(S_no_objects)
                     ELSE IF Tag(objects) # "arr" THEN raises("TypeError")
                     ELSE LET items == Payload(objects)
                              bad == {i \in 1..Len(items) : object_failure(items[i]) # ""}
                          IN  IF bad = {} THEN returns(objects_text(items))
                              ELSE raises(object_failure(items[
                                      CHOOSE i \in bad : \A j \in bad : i <= j]))

list_objects_format ==
    /\ cpc = "format"
    /\ tool' = list_objects_body(result)
    /\ cpc' = "exit"
    /\ UNCHANGED <<server_vars, listener_vars, history, peer, peer_rcvd, sock, conn_sock, connected,
                   yields, requests, response_data, result, fault>>

\* The tool returned: the generator is resumed after its yield and runs the
\* finally clause, if connection.sock: connection.sock.close().  A socket
\* whose connect failed is in no connection.sock: nothing closes it, and it
\* is released when the interpreter collects the generator's frame, at once
\* or later.
ctx_exit ==
    /\ cpc = "exit"
    /\ ~tool.raised
    /\ sock' \in (IF conn_sock THEN {"closed"} ELSE {sock, "closed"})
    /\ cpc' = "done"
    /\ UNCHANGED <<server_vars, listener_vars, history, peer, peer_rcvd, conn_sock, connected, yields,
                   requests, response_data, result, tool, fault>>

\* The tool raised: the exception is thrown into the generator at the yield
\* inside the try, the except clause catches it, sets connected = False and
\* yields a second time, and the context manager raises RuntimeError.  The
\* finally clause runs when the suspended generator is closed: at once, or
\* not before the invocation is over, as the Python version has it.
ctx_exit_raised ==
    /\ cpc = "exit"
    /\ tool.raised
    /\ connected' = FALSE
    /\ yields' = yields + 1
    /\ tool' = raises("RuntimeError")
    /\ sock' \in {sock, "closed"}
    /\ cpc' = "done"
    /\ UNCHANGED <<server_vars, listener_vars, history, peer, peer_rcvd, conn_sock, requests,
                   response_data, result, fault>>

NextClient ==
    \/ ctx_connect
    \/ \E reason \in {"refused", "timeout"} : ctx_connect_error(reason)
    \/ list_objects_enter
    \/ send_to_c4d_sendall
    \/ send_to_c4d_sendall_error
    \/ \E n \in 1..(Len(peer_bytes) - peer_rcvd) : send_to_c4d_recv(n)
    \/ send_to_c4d_recv_eof
    \/ send_to_c4d_recv_error
    \/ send_to_c4d_parse
    \/ list_objects_format
    \/ ctx_exit
    \/ ctx_exit_raised

SpecClient == InitClient /\ [][NextClient]_vars

(***************************************************************************)
(* send_to_c4d called on a connection of any kind, as the tests call it.   *)
(***************************************************************************)
InitSend ==
    /\ server_idle
    /\ listener_idle
    /\ history = <<>>
    /\ cpc = "send"
    /\ peer \in 1..Len(PeerStreams)
    /\ peer_rcvd = 0
    /\ connected \in BOOLEAN
    /\ conn_sock \in BOOLEAN
    /\ sock = IF conn_sock THEN "open" ELSE "none"
    /\ yields = 0
    /\ requests = <<>>
    /\ response_data = <<>>
    /\ result = NoResult
    /\ tool = NoOutcome
    /\ fault = ""

send_to_c4d_recv_some == \E n \in 1..(Len(peer_bytes) - peer_rcvd) : send_to_c4d_recv(n)

NextSend ==
    \/ send_to_c4d_sendall
    \/ send_to_c4d_sendall_error
    \/ send_to_c4d_recv_some
    \/ send_to_c4d_recv_eof
    \/ send_to_c4d_recv_error
    \/ send_to_c4d_parse

\* The steps of send_to_c4d go on when they can: sendall and recv return
\* when the peer lets them, and no step waits for anything else.  That a
\* call fails is up to the transport, and no timeout is set on the socket.
SpecSend ==
    /\ InitSend
    /\ [][NextSend]_vars
    /\ WF_vars(send_to_c4d_sendall)
    /\ WF_vars(send_to_c4d_recv_some)
    /\ WF_vars(send_to_c4d_recv_eof)
    /\ WF_vars(send_to_c4d_parse)

(***************************************************************************)
(* One invocation of list_objects after another.                           *)
(***************************************************************************)
\* How many invocations there are.
MaxCalls == 2

\* What is left of an invocation that is over.
over == [sock |-> sock, connected |-> conn_sock, requests |-> Len(requests),
         raised |-> tool.raised]

\* The next invocation: async with c4d_connection_context() as connection
\* makes a new C4DConnection.
list_objects_again ==
    /\ cpc = "done"
    /\ Len(history) < MaxCalls - 1
    /\ history' = Append(history, over)
    /\ cpc' = "enter"
    /\ peer' \in 1..Len(PeerStreams)
    /\ peer_rcvd' = 0
    /\ sock' = "none"
    /\ conn_sock' = FALSE
    /\ connected' = FALSE
    /\ yields' = 0
    /\ requests' = <<>>
    /\ response_data' = <<>>
    /\ result' = NoResult
    /\ tool' = NoOutcome
    /\ fault' = ""
    /\ UNCHANGED <<server_vars, listener_vars>>

\* The generator of an invocation that raised is collected: its finally
\* clause runs and closes the socket.
ctx_finally_later(i) ==
    /\ i \in 1..Len(history)
    /\ history[i].sock = "open"
    /\ history' = [history EXCEPT ![i].sock = "closed"]
    /\ UNCHANGED <<server_vars, listener_vars, cpc, peer, peer_rcvd, sock,
                   conn_sock, connected, yields, requests, response_data,
                   result, tool, fault>>

NextCalls ==
    \/ NextClient
    \/ list_objects_again
    \/ \E i \in 1..Len(history) : ctx_finally_later(i)

SpecCalls == InitClient /\ [][NextCalls]_vars

(***************************************************************************)
(* The listener: C4DSocketServer.start, stop and accept_connections.  The  *)
(* accept loop runs on its own thread; start and stop are called by the    *)
(* host.                                                                   *)
(***************************************************************************)
\* How many clients connect.
MaxClients == 3

\* The listener of the plugin or of addon.py, before start; no connection
\* is served yet.
InitListener ==
    /\ impl \in {"plugin", "addon"}
    /\ running = FALSE
    /\ pc = "done"
    /\ sent = <<>>
    /\ stream = <<>>
    /\ rcvd = 0
    /\ buffer = <<>>
    /\ response = JLit("null")
    /\ out = <<>>
    /\ client_open = FALSE
    /\ calls = <<>>
    /\ exit = ""
    /\ client_idle
    /\ listener_idle

\* start: bind and listen succeed; self.running = True; the thread of
\* accept_connections is started.
start ==
    /\ lsock = "none"
    /\ lsock' = "listening"
    /\ log' = Append(log, "started")
    /\ running' = TRUE
    /\ apc' = "test"
    /\ UNCHANGED <<client_vars, handler_vars, impl, pc, sent, stream, rcvd, buffer, response,
                   out, client_open, calls, exit, spc, accepted>>

\* A start that sets the flag before it binds.
start_error_flagged ==
    /\ lsock = "none"
    /\ lsock' = "unbound"
    /\ log' = Append(log, "start_error")
    /\ running' = TRUE
    /\ UNCHANGED <<client_vars, handler_vars, impl, pc, sent, stream, rcvd, buffer, response,
                   out, client_open, calls, exit, apc, spc, accepted>>

\* start: bind or listen raises; the failure is printed and no thread is
\* started.
start_error ==
    /\ lsock = "none"
    /\ lsock' = "unbound"
    /\ log' = Append(log, "start_error")
    /\ UNCHANGED <<client_vars, handler_vars, server_vars, apc, spc, accepted>>

\* while self.running:
accept_test ==
    /\ apc = "test"
    /\ apc' = IF running THEN "call" ELSE "exited"
    /\ UNCHANGED <<client_vars, handler_vars, server_vars, lsock, spc, log, accepted>>

\* self.socket.accept() is called on the listening socket and waits for a
\* client.
accept_enter ==
    /\ apc = "call"
    /\ lsock = "listening"
    /\ apc' = "accept"
    /\ UNCHANGED <<client_vars, handler_vars, server_vars, lsock, spc, log, accepted>>

\* accept returns a client: it is printed and handed to a new thread.  A
\* call that waited when the socket was closed may, as the platform has it,
\* go on waiting and still return a client.
accept_client ==
    /\ apc = "accept"
    /\ accepted < MaxClients
    /\ accepted' = accepted + 1
    /\ log' = Append(log, "client")
    /\ apc' = "test"
    /\ UNCHANGED <<client_vars, handler_vars, server_vars, lsock, spc>>

\* except Exception as e: if self.running: print(...); break
accept_raises(target) ==
    /\ log' = IF running THEN Append(log, "accept_error") ELSE log
    /\ apc' = target
    /\ UNCHANGED <<client_vars, handler_vars, server_vars, lsock, spc, accepted>>

\* An except clause without its break.
accept_error_retry == apc = "accept" /\ accept_raises("test")

\* accept raises while it waits: a failure of the transport, or, as the
\* platform has it, the close of the socket.
accept_error == apc = "accept" /\ accept_raises("exited")

\* accept is called on the socket that stop has closed: it raises at once.
accept_closed == apc = "call" /\ lsock = "closed" /\ accept_raises("exited")

\* stop: self.running = False
stop_clear ==
    /\ spc = "idle"
    /\ lsock # "none"
    /\ running' = FALSE
    /\ spc' = "cleared"
    /\ UNCHANGED <<client_vars, handler_vars, impl, pc, sent, stream, rcvd, buffer, response,
                   out, client_open, calls, exit, lsock, apc, log, accepted>>

\* stop: if self.socket: self.socket.close(); print(...)
stop_close ==
    /\ spc = "cleared"
    /\ lsock' = "closed"
    /\ log' = Append(log, "stopped")
    /\ spc' = "stopped"
    /\ UNCHANGED <<client_vars, handler_vars, server_vars, apc, accepted>>

NextListener ==
    \/ start
    \/ start_error
    \/ accept_test
    \/ accept_enter
    \/ accept_client
    \/ accept_error
    \/ accept_closed
    \/ stop_clear
    \/ stop_close

\* The accept loop and stop go on when they can; whether a client comes and
\* whether a waiting accept fails is up to the platform.
SpecListener ==
    /\ InitListener
    /\ [][NextListener]_vars
    /\ WF_vars(accept_test)
    /\ WF_vars(accept_enter)
    /\ WF_vars(accept_closed)
    /\ WF_vars(stop_close)

(***************************************************************************)
(* What the client sent, line by line: the reference the handler's work   *)
(* on the chunks is compared with.                                         *)
(***************************************************************************)
\* json.loads of each line of the catalogue.
ParsedLines ==
    <<json_loads(L_scene), json_loads(L_accent), json_loads(L_nocommand),
      json_loads(L_notjson), json_loads(L_list), json_loads(L_nan)>>

\* What json.loads makes of the i-th line sent.
sent_value(i) == ParsedLines[sent[i]]

newline_places(text) == {i \in 1..Len(text) : text[i] = "\n"}

\* The k-th smallest place of a set of places.
nth_place(places, k) ==
    CHOOSE p \in places : Cardinality({q \in places : q < p}) = k - 1

\* How many of the lines sent have been received up to their newline, and
\* the place of the last newline received.
received_lines == Cardinality({p \in newline_places(stream) : p <= rcvd})
last_newline ==
    IF received_lines = 0 THEN 0
    ELSE nth_place(newline_places(stream), received_lines)

\* The first line sent that json.loads rejects; one past the last line when
\* there is none.
first_bad_line ==
    LET bad == {k \in 1..Len(sent) : ~sent_value(k).ok}
    IN  IF bad = {} THEN Len(sent) + 1
        ELSE CHOOSE k \in bad : \A j \in bad : k <= j

\* The value a written line carries, as its reader parses it.
parsed_line(bytes) ==
    LET text == utf8_decode(bytes).text
    IN  json_loads(SubSeq(text, 1, Len(text) - 1))

\* The responses the dispatcher can give to the lines of the catalogue, and
\* parsed_line of the line each is written as, computed once.
KnownResponses ==
    UNION {{process_command(i, ParsedLines[k].v, outcome).response :
               outcome \in outcomes_of(i, ParsedLines[k].v)} :
           i \in {"plugin", "addon"}, k \in {j \in 1..Len(Lines) : ParsedLines[j].ok}}

KnownLineValues ==
    {<<utf8_encode(json_dumps(r) \o <<"\n">>),
       parsed_line(utf8_encode(json_dumps(r) \o <<"\n">>))>> : r \in KnownResponses}

\* parsed_line, looked up where it is known.
line_value(bytes) ==
    IF \E known \in KnownLineValues : known[1] = bytes
    THEN (CHOOSE known \in KnownLineValues : known[1] = bytes)[2]
    ELSE parsed_line(bytes)

\* A written line is one line: its only newline is its last byte.
one_line(bytes) == newline_places(bytes) = {Len(bytes)}

is_mapping(val) == Tag(val) = "obj"
has_command(val) == is_mapping(val) /\ dict_has(val, S_command)
has_handler(val) ==
    /\ has_command(val)
    /\ Tag(dict_get(val, S_command, JStr(<<>>))) = "str"
    /\ \E h \in 1..Len(IF impl = "plugin" THEN PluginHandlers ELSE AddonHandlers) :
          (IF impl = "plugin" THEN PluginHandlers ELSE AddonHandlers)[h]
              = Payload(dict_get(val, S_command, JStr(<<>>)))

\* The loop was left for a reason that lies after the i-th response.
left_later == exit \in {"stopped", "eof", "recv", "decode", "json", "send"}

(***************************************************************************)
(* C1.  A command whose `command` value has no registered handler is       *)
(* answered with exactly {"error": "Unknown command: <value>"}; the        *)
(* answer does not end the connection, and a later command with a handler  *)
(* is dispatched and answered on it (plugin).                              *)
(***************************************************************************)
C1_UnknownCommandAnswered ==
    \A i \in 1..Len(calls) :
        LET c == calls[i].command
            value == dict_get(c, S_command, JStr(<<>>))
            expected == JObj(<< <<S_error,
                                  JStr(S_unknown_command \o py_str(value))>> >>)
        IN  (has_command(c) /\ ~has_handler(c)) =>
              /\ ~calls[i].result.raised
              /\ calls[i].result.response = expected
              /\ i = Len(calls) => (pc = "send" \/ Len(out) = i \/ exit = "send")
              /\ Len(out) >= i =>
                    /\ one_line(out[i])
                    /\ line_value(out[i]) = [ok |-> TRUE, v |-> expected]
              /\ (i = Len(calls) /\ Len(out) = i /\ ~left_later) =>
                    (client_open /\ exit = "" /\ pc \in {"extract", "loop", "recv"})
              /\ \A j \in (i + 1)..Len(calls) :
                    (impl = "plugin" /\ has_handler(calls[j].command)) =>
                       /\ ~calls[j].result.raised
                       /\ Len(out) >= j =>
                             line_value(out[j]).v = calls[j].result.response

C1_Witness ==
    /\ impl = "plugin"
    /\ Len(out) = 2
    /\ client_open
    /\ has_command(calls[1].command) /\ ~has_handler(calls[1].command)
    /\ has_handler(calls[2].command)

(***************************************************************************)
(* C2 as claimed.  Whenever a registered handler raises, in the plugin and *)
(* in addon.py, the dispatcher returns an error mapping that carries the   *)
(* failure message, the mapping is written, and the connection stays open. *)
(***************************************************************************)
C2_HandlerFailureAnswered ==
    \A i \in 1..Len(calls) :
        calls[i].outcome[1] = "raise" =>
           /\ ~calls[i].result.raised
           /\ is_mapping(calls[i].result.response)
           /\ Len(Payload(calls[i].result.response)) = 1
           /\ dict_has(calls[i].result.response, S_error)
           /\ ends_with(Payload(dict_get(calls[i].result.response, S_error,
                                         JStr(<<>>))), calls[i].outcome[2])
           /\ exit # "dispatch"
           /\ (i = Len(calls) /\ Len(out) = i /\ ~left_later) => client_open

(***************************************************************************)
(* C3.  Request/response alternation: every written response is one line,  *)
(* and whenever the handler extracts the next message or waits in recv,    *)
(* every command dispatched so far has its response written; at most one   *)
(* response is ever outstanding.  A response is missing only when sendall  *)
(* failed or, in the plugin, the decoded value is no mapping; both end the *)
(* loop.                                                                   *)
(***************************************************************************)
C3_Alternation ==
    /\ \A i \in 1..Len(out) : one_line(out[i])
    /\ pc \in {"loop", "recv", "extract"} => Len(out) = Len(calls)
    /\ pc = "send" => Len(out) + 1 = Len(calls)
    /\ pc \in {"close", "done"} =>
          Len(calls) = Len(out) + (IF exit \in {"send", "dispatch"} THEN 1 ELSE 0)
    /\ (exit = "dispatch" /\ impl = "plugin") =>
          ~is_mapping(calls[Len(calls)].command)

C3_Witness ==
    /\ Len(out) = 2 /\ Len(calls) = 2
    /\ pc = "recv"
    /\ rcvd = Len(stream)

\* The loop was not cut short from outside: no stop request, no failing
\* recv or sendall.
undisturbed == exit \notin {"stopped", "recv", "send"}

\* The handler has worked off everything it received: it is between two
\* chunks, or has left the loop.
settled == pc \in {"loop", "recv", "close", "done"}

(***************************************************************************)
(* C4 as claimed.  A command split across receive calls: a first chunk    *)
(* that holds a part of it and no newline dispatches nothing and leaves    *)
(* the handler waiting for the rest; once the chunk with its newline has   *)
(* been worked off, the command has been parsed as a whole, dispatched     *)
(* once and answered once.                                                 *)
(***************************************************************************)
C4_SplitCommandReassembled ==
    LET first == sent_value(1)
        newlines == received_lines
    IN  (first.ok /\ is_mapping(first.v) /\ impl = "plugin" /\ undisturbed) =>
          /\ newlines = 0 => calls = <<>> /\ out = <<>>
          /\ (newlines = 0 /\ rcvd > 0 /\ settled) => pc \in {"loop", "recv"}
          /\ (newlines = 1 /\ settled) =>
                /\ Len(calls) = 1 /\ calls[1].command = first.v
                /\ Len(out) = 1

(***************************************************************************)
(* C5 as claimed.  However the stream is cut into chunks, the handler      *)
(* does what it does when the stream arrives whole: it dispatches the      *)
(* lines before the first one that is no JSON, in order, writes the        *)
(* response of each, and leaves the loop for a decoding failure only when  *)
(* the stream as a whole is no UTF-8.  No received byte is dropped: what   *)
(* it holds between two chunks are the bytes received after the last       *)
(* newline.                                                                *)
(***************************************************************************)
C5_ChunkingInvisible ==
    LET got == received_lines
    IN  /\ \A i \in 1..Len(calls) :
              calls[i].command = sent_value(i).v
        /\ \A i \in 1..Len(out) :
              line_value(out[i]) = [ok |-> TRUE, v |-> calls[i].result.response]
        /\ (settled /\ undisturbed) =>
              /\ exit = "decode" => ~utf8_decode(stream).ok
              /\ exit \notin {"decode", "dispatch"} =>
                    /\ Len(calls) = (IF got < first_bad_line THEN got
                                     ELSE first_bad_line - 1)
                    /\ Len(out) = Len(calls)
              /\ pc \in {"loop", "recv"} =>
                    utf8_encode(buffer) = SubSeq(stream, last_newline + 1, rcvd)

(***************************************************************************)
(* C6.  A line that is no JSON ends the session: no response is written    *)
(* for it, nothing sent after it is ever dispatched (no resynchronization) *)
(* and the handler goes on to close the connection, after which nothing is *)
(* written.                                                                *)
(***************************************************************************)
C6_MalformedLineEndsSession ==
    /\ Len(calls) < first_bad_line
    /\ Len(out) <= Len(calls)
    /\ exit = "json" =>
          /\ pc \in {"close", "done"}
          /\ Len(calls) = first_bad_line - 1
          /\ Len(out) = first_bad_line - 1
    /\ pc = "done" <=> ~client_open

\* C6 happens: a line that is no JSON came first, a command with a handler
\* after it was received too, and the connection was closed with nothing
\* dispatched and nothing written.
C6_Witness ==
    /\ exit = "json"
    /\ ~client_open
    /\ first_bad_line = 1
    /\ Len(sent) = 2
    /\ has_handler(sent_value(2).v)
    /\ rcvd = Len(stream)
    /\ calls = <<>>
    /\ out = <<>>

(***************************************************************************)
(* C7 as claimed.  A mapping without the `command` field is fatal to the   *)
(* connection, like malformed JSON: no response is written for it and      *)
(* nothing is dispatched after it.                                         *)
(***************************************************************************)
C7_MissingCommandFatal ==
    \A i \in 1..Len(calls) :
        (is_mapping(calls[i].command) /\ ~has_command(calls[i].command)) =>
            (Len(calls) = i /\ Len(out) < i)

(***************************************************************************)
(* C7 as amended.  A mapping without the `command` field is dispatched     *)
(* with the empty command name: it is answered with                        *)
(* {"error": "Unknown command: "} and the connection stays open.           *)
(***************************************************************************)
C7_MissingCommandAnswered ==
    \A i \in 1..Len(calls) :
        (is_mapping(calls[i].command) /\ ~has_command(calls[i].command)) =>
            LET expected == JObj(<< <<S_error, JStr(S_unknown_command)>> >>)
            IN  /\ ~calls[i].result.raised
                /\ calls[i].result.response = expected
                /\ Len(out) >= i => line_value(out[i]) = [ok |-> TRUE, v |-> expected]
                /\ (i = Len(calls) /\ ~left_later) =>
                      (client_open /\ exit = ""
                         /\ pc \in {"send", "extract", "loop", "recv"})

C7_Witness ==
    /\ Len(out) = 2
    /\ client_open
    /\ is_mapping(calls[1].command) /\ ~has_command(calls[1].command)

(***************************************************************************)
(* C8.  Responses come in send order: the i-th line written is the         *)
(* response to the i-th line sent, the one the dispatcher gives for that   *)
(* line's command and its handler's outcome.                               *)
(***************************************************************************)
C8_ResponsesInSendOrder ==
    \A i \in 1..Len(out) :
        LET line == sent_value(i)
        IN  /\ line.ok
            /\ calls[i].command = line.v
            /\ line_value(out[i]) =
                  [ok |-> TRUE,
                   v |-> process_command(impl, line.v, calls[i].outcome).response]

C8_Witness ==
    /\ Len(out) = 2
    /\ out[1] # out[2]
    /\ sent[1] # sent[2]


(***************************************************************************)
(* C9 as claimed.  The client connector never raises past its boundary     *)
(* when the connection is refused, a call times out, the peer closes in    *)
(* the middle of a read, or the response line is no JSON mapping: the tool *)
(* invocation ends without an exception, and whatever send_to_c4d returned *)
(* is a mapping with the key "error".                                      *)
(***************************************************************************)
C9_ConnectorNeverRaises ==
    LET failing == fault # "" \/ peer \in NoMappingStreams
    IN  /\ (cpc = "done" /\ failing) => ~tool.raised
        /\ (result # NoResult /\ failing) =>
              (Tag(result) = "obj" /\ dict_has(result, S_error))

(***************************************************************************)
(* C10.  When the peer sends a mapping R as one line ending in a newline,  *)
(* in whatever chunks, and no call on the socket fails, send_to_c4d        *)
(* returns R unchanged; and send_to_c4d calls sendall at most once, with   *)
(* one line that ends in its only newline and is the JSON of the command.  *)
(***************************************************************************)
C10_ResponseReturnedUnchanged ==
    /\ Len(requests) <= 1
    /\ \A i \in 1..Len(requests) :
          /\ one_line(requests[i])
          /\ line_value(requests[i]).ok
          /\ line_value(requests[i]).v = list_objects_command
    /\ (result # NoResult /\ fault = "" /\ peer <= Len(PeerMappings)) =>
          /\ result = PeerMappings[peer]
          /\ Len(requests) = 1

\* C10 happens: the peer's line was a failure whose message had to be
\* escaped, and send_to_c4d returned it after one sendall.
C10_Witness ==
    /\ cpc = "done"
    /\ peer <= Len(PeerMappings)
    /\ PeerMappings[peer] = R_failed
    /\ result = R_failed
    /\ Len(requests) = 1
    /\ fault = ""
    /\ ~tool.raised

(***************************************************************************)
(* C11.  When send_to_c4d is called on a connection that is marked not     *)
(* connected or has no socket, it returns exactly                          *)
(* {"error": "Not connected to Cinema 4D"}, and it has passed nothing to   *)
(* sendall and taken nothing from recv.                                    *)
(***************************************************************************)
C11_NotConnectedAnswer ==
    (cpc # "send" /\ (~connected \/ ~conn_sock)) =>
        /\ result = JObj(<< <<S_error, JStr(S_not_connected)>> >>)
        /\ requests = <<>>
        /\ peer_rcvd = 0
        /\ response_data = <<>>

\* C11 happens: a connection with a socket but marked not connected was
\* answered, and nothing was sent.
C11_Witness ==
    /\ cpc = "format"
    /\ ~connected
    /\ conn_sock
    /\ result = JObj(<< <<S_error, JStr(S_not_connected)>> >>)
    /\ requests = <<>>

\* Whether word stands somewhere in text.
contains(text, word) == \E i \in 1..(Len(text) + 1) : starts_with(text, i, word)

(***************************************************************************)
(* C12.  When sendall fails, send_to_c4d returns a mapping with the key    *)
(* "error" whose text holds the failure's message, and it has taken        *)
(* nothing from recv.                                                      *)
(***************************************************************************)
C12_SendFailureReported ==
    fault = "send" =>
        /\ Tag(result) = "obj"
        /\ dict_has(result, S_error)
        /\ Tag(dict_get(result, S_error, JLit("null"))) = "str"
        /\ contains(Payload(dict_get(result, S_error, JLit("null"))), S_broken_pipe)
        /\ peer_rcvd = 0
        /\ response_data = <<>>
        /\ cpc = "format"

\* C12 happens: sendall failed on a connected socket and the call returned.
C12_Witness ==
    /\ fault = "send"
    /\ connected /\ conn_sock
    /\ cpc = "format"
    /\ result = communication_error(S_broken_pipe)
    /\ peer_rcvd = 0

(***************************************************************************)
(* C13 as claimed.  When the invocation of a tool is over, the socket that *)
(* c4d_connection_context created is closed: after a round trip, after a   *)
(* failed connect, send, receive or parse, and after the tool's body       *)
(* raised.                                                                 *)
(***************************************************************************)
C13_SocketClosedOnReturn == cpc = "done" => sock = "closed"

(***************************************************************************)
(* C14 as claimed.  Every invocation of a tool creates one socket of its   *)
(* own, passes at most one command to sendall, and leaves no connection    *)
(* open when it is over, the invocations before it included.               *)
(***************************************************************************)
C14_OneConnectionPerCall ==
    /\ cpc # "enter" => sock # "none"
    /\ Len(requests) <= 1
    /\ (cpc = "done" /\ conn_sock) => sock = "closed"
    /\ \A i \in 1..Len(history) :
          /\ history[i].requests <= 1
          /\ history[i].connected => history[i].sock = "closed"

\* The state of the call as section 4.3 names it.  A call has failed when a
\* transport call raised or the bytes received would not decode or parse.
parse_failed(data) ==
    \/ ~utf8_decode(data).ok
    \/ ~json_loads(strip(utf8_decode(data).text)).ok

\* The bytes among those of KnownParses that would not decode or parse.
FailedParses == {known[1] : known \in {k \in KnownParses : parse_failed(k[1])}}

call_failed ==
    \/ fault # ""
    \/ /\ cpc \in {"format", "exit", "done"}
       /\ result # NoResult
       /\ IF \E known \in KnownParses : known[1] = response_data
          THEN response_data \in FailedParses
          ELSE parse_failed(response_data)

phase ==
    CASE cpc = "enter" -> "IDLE"
      [] cpc = "body" -> IF call_failed THEN "FAILED" ELSE "CONNECTING"
      [] cpc = "send" -> "SENDING"
      [] cpc \in {"recv", "parse"} -> "RECEIVING"
      [] cpc = "done" /\ sock = "closed" -> "CLOSED"
      [] OTHER -> IF call_failed THEN "FAILED" ELSE "PARSED"

\* The states a call may go to from a state.
phase_after(state) ==
    CASE state = "IDLE" -> {"CONNECTING", "FAILED"}
      [] state = "CONNECTING" -> {"SENDING", "FAILED"}
      [] state = "SENDING" -> {"RECEIVING", "FAILED"}
      [] state = "RECEIVING" -> {"PARSED", "FAILED"}
      [] state \in {"PARSED", "FAILED"} -> {"CLOSED"}
      [] OTHER -> {}

(***************************************************************************)
(* C15 as claimed.  A call goes through IDLE, CONNECTING, SENDING,         *)
(* RECEIVING, then PARSED or FAILED, then CLOSED, in that order, FAILED    *)
(* being entered from any state before it; a call that entered FAILED ends *)
(* without an exception; and every call that is over is CLOSED.            *)
(***************************************************************************)
C15_CallStateMachine ==
    /\ [][phase' # phase => phase' \in phase_after(phase)]_vars
    /\ []((cpc = "done" /\ call_failed) => ~tool.raised)
    /\ [](cpc = "done" => phase = "CLOSED")

(***************************************************************************)
(* C16 as claimed.  Every call of send_to_c4d returns in the end, and with *)
(* a result.                                                               *)
(***************************************************************************)
C16_EventuallyOneResult == <>(cpc = "format" /\ result # NoResult)

\* The peers that close the connection before they have sent a newline.
ClosedMidMessage ==
    {p \in 1..Len(PeerStreams) :
        p \notin SilentPeers /\ index_of(PeerStreams[p], "\n", 1) = 0}

(***************************************************************************)
(* C17 as claimed.  When the peer closes the connection before it has sent *)
(* a newline, send_to_c4d returns a mapping with the key "error".          *)
(***************************************************************************)
C17_PeerCloseIsError ==
    (result # NoResult /\ peer \in ClosedMidMessage /\ connected /\ conn_sock) =>
        (Tag(result) = "obj" /\ dict_has(result, S_error))

\* The places of the log where a failure of accept was printed.
accept_errors == {i \in 1..Len(log) : log[i] = "accept_error"}

(***************************************************************************)
(* C18 as claimed.  After a stop request the listening socket is closed,   *)
(* no failure of accept is printed from the request on, and the accept     *)
(* loop is left in the end, wherever it was when the request came.         *)
(***************************************************************************)
C18_StopEndsAcceptLoop ==
    /\ [](spc = "stopped" => lsock = "closed")
    /\ [][spc # "idle" => accept_errors' = accept_errors]_vars
    /\ (spc = "stopped" ~> apc \in {"none", "exited"})

(***************************************************************************)
(* C19.  When accept fails while the listener is running, the failure is   *)
(* printed and the accept loop is left for good: from then on the loop     *)
(* stays left and no client is accepted, though running is still true      *)
(* until a stop request.                                                   *)
(***************************************************************************)
C19_AcceptFailureEndsLoop ==
    /\ [][(apc \in {"call", "accept"} /\ apc' \notin {"call", "accept"}
            /\ accepted' = accepted /\ running)
          => (log' = Append(log, "accept_error") /\ apc' = "exited")]_vars
    /\ [](accept_errors # {} =>
            /\ apc = "exited"
            /\ \A i \in accept_errors : \A j \in (i + 1)..Len(log) : log[j] # "client")
    /\ [][apc = "exited" => (apc' = "exited" /\ accepted' = accepted)]_vars

\* C19 happens: after one client, accept failed; the failure was printed,
\* the loop is left and the listener still counts as running.
C19_Witness ==
    /\ accept_errors # {}
    /\ apc = "exited"
    /\ running
    /\ spc = "idle"
    /\ lsock = "listening"
    /\ accepted = 1
    /\ log[Len(log)] = "accept_error"

\* Whether a value holds a float that is no number.  Such a value has no
\* JSON text: json.dumps writes NaN or Infinity for it, which json.loads
\* reads back though they are no JSON.
RECURSIVE non_finite(_)
non_finite(val) ==
    CASE Tag(val) = "flt" -> Payload(val) \in {W_nan, W_inf}
      [] Tag(val) = "arr" -> \E i \in 1..Len(Payload(val)) : non_finite(Payload(val)[i])
      [] Tag(val) = "obj" -> \E i \in 1..Len(Payload(val)) : non_finite(Payload(val)[i][2])
      [] OTHER -> FALSE

(***************************************************************************)
(* C20 as claimed.  Every line the server has written is one line of valid *)
(* JSON, and its value is a mapping that has the key "error" and no other, *)
(* or has no key "error".                                                  *)
(***************************************************************************)
C20_ResponsesWellFormed ==
    \A i \in 1..Len(out) :
        /\ one_line(out[i])
        /\ line_value(out[i]).ok
        /\ ~non_finite(line_value(out[i]).v)
        /\ is_mapping(line_value(out[i]).v)
        /\ dict_has(line_value(out[i]).v, S_error) => Len(Payload(line_value(out[i]).v)) = 1

(***************************************************************************)
(* The listener started again: nothing in start looks at what stop has     *)
(* done, so the host may call start on a server it has stopped.            *)
(***************************************************************************)
\* How many times start is called on one server.
MaxStarts == 3

count_of(entries, word) == Cardinality({i \in 1..Len(entries) : entries[i] = word})

starts == count_of(log, "started") + count_of(log, "start_error")

\* start is called once stop has returned and the accept thread of the run
\* before is over: a new socket is bound and listens, self.running = True,
\* and a new thread of accept_connections is started.
start_again ==
    /\ spc = "stopped"
    /\ apc \in {"none", "exited"}
    /\ starts < MaxStarts
    /\ lsock' = "listening"
    /\ log' = Append(log, "started")
    /\ running' = TRUE
    /\ apc' = "test"
    /\ spc' = "idle"
    /\ UNCHANGED <<client_vars, handler_vars, impl, pc, sent, stream, rcvd, buffer, response,
                   out, client_open, calls, exit, accepted>>

\* start is called once stop has returned, and bind or listen raises (the
\* port is taken by now): the new socket replaces the closed one.
start_again_error ==
    /\ spc = "stopped"
    /\ apc \in {"none", "exited"}
    /\ starts < MaxStarts
    /\ lsock' = "unbound"
    /\ log' = Append(log, "start_error")
    /\ spc' = "idle"
    /\ UNCHANGED <<client_vars, handler_vars, server_vars, apc, accepted>>

NextRestart ==
    \/ NextListener
    \/ start_again
    \/ start_again_error

SpecRestart == InitListener /\ [][NextRestart]_vars

stop_requested == count_of(log, "stopped") > 0

\* C21: once stop has been called on a server, no later call of start or
\* stop brings it back to a running state in which it accepts clients.
C21_StoppedIsTerminal ==
    stop_requested => ~(running /\ lsock = "listening" /\ apc \in {"test", "call", "accept"})

(***************************************************************************)
(* Several connections: accept_connections starts one handle_client thread *)
(* for every client accept returns and goes back to accept.  The threads   *)
(* share self.running and nothing else: client and buffer are locals of    *)
(* handle_client.  pc to exit are the locals of the thread that takes the  *)
(* next step, the locals of the others are parked.                         *)
(***************************************************************************)
\* The clients that are connected at the same time, two of them.
Conns == 1..2

\* What each of them sends: one or two lines, each an unknown command
\* (L_nocommand) or no JSON (L_notjson).
TwoChoices == {<<3>>, <<4>>, <<3, 3>>, <<3, 4>>}

locals == [pc |-> pc, sent |-> sent, stream |-> stream, rcvd |-> rcvd,
           buffer |-> buffer, response |-> response, out |-> out,
           client_open |-> client_open, calls |-> calls, exit |-> exit]

\* The place of the thread that runs in parked.
Running == [pc |-> "running"]

\* A client that has connected and is not accepted yet.
waiting(lines) ==
    [pc |-> "wait", sent |-> lines, stream |-> utf8_encode(join_lines(lines)),
     rcvd |-> 0, buffer |-> <<>>, response |-> JLit("null"), out |-> <<>>,
     client_open |-> FALSE, calls |-> <<>>, exit |-> ""]

\* The locals of handler thread k.
conn(k) == IF k = cur THEN locals ELSE parked[k]

\* The listener is started, and the clients have connected.
InitTwo ==
    /\ client_idle
    /\ impl = "plugin"
    /\ running = TRUE
    /\ lsock = "listening"
    /\ apc = "test"
    /\ spc = "idle"
    /\ log = <<"started">>
    /\ accepted = 0
    /\ cur = 1
    /\ exec_idle
    /\ host_idle
    /\ main_idle
    /\ \E lines \in [Conns -> TwoChoices] :
          /\ pc = "wait"
          /\ sent = lines[1]
          /\ stream = utf8_encode(join_lines(lines[1]))
          /\ rcvd = 0
          /\ buffer = <<>>
          /\ response = JLit("null")
          /\ out = <<>>
          /\ client_open = FALSE
          /\ calls = <<>>
          /\ exit = ""
          /\ parked = [k \in Conns |-> IF k = 1 THEN Running ELSE waiting(lines[k])]

\* accept returns the client that waits: it is printed, and
\* client_thread.start() starts handle_client(client).
accept_spawn ==
    /\ apc = "accept"
    /\ pc = "wait"
    /\ pc' = "loop"
    /\ client_open' = TRUE
    /\ accepted' = accepted + 1
    /\ log' = Append(log, "client")
    /\ apc' = "test"
    /\ UNCHANGED <<client_vars, handler_vars, impl, running, sent, stream, rcvd, buffer,
                   response, out, calls, exit, lsock, spc>>

\* The scheduler goes on with thread k.
switch(k) ==
    /\ k # cur
    /\ cur' = k
    /\ parked' = [parked EXCEPT ![cur] = locals, ![k] = Running]
    /\ pc' = parked[k].pc
    /\ sent' = parked[k].sent
    /\ stream' = parked[k].stream
    /\ rcvd' = parked[k].rcvd
    /\ buffer' = parked[k].buffer
    /\ response' = parked[k].response
    /\ out' = parked[k].out
    /\ client_open' = parked[k].client_open
    /\ calls' = parked[k].calls
    /\ exit' = parked[k].exit
    /\ UNCHANGED <<client_vars, exec_vars, host_vars, main_vars, impl, running, lsock, apc, spc, log,
                   accepted>>

NextTwo ==
    \/ accept_test
    \/ accept_enter
    \/ accept_spawn
    \/ accept_error
    \/ \E k \in Conns : switch(k)
    \/ handle_client_loop
    \/ \E n \in 1..(Len(stream) - rcvd) : handle_client_recv(n)
    \/ handle_client_eof
    \/ handle_client_recv_error
    \/ handle_client_extract
    \/ handle_client_send
    \/ handle_client_send_error
    \/ handle_client_close

SpecTwo == InitTwo /\ [][NextTwo]_vars

\* Handler thread k runs: its client was accepted and is not closed.
live(k) == conn(k).pc \notin {"wait", "done"}

\* C22: the server allows one connection only: while the handler of one
\* accepted connection is live, no second connection is accepted and
\* served.
C22_OneConnectionAtATime ==
    \A j, k \in Conns : (live(j) /\ live(k)) => j = k

\* Thread k has left its loop for a failure on its own connection.
failed(k) == conn(k).exit \in {"decode", "json", "recv", "send"}

(***************************************************************************)
(* C23.  With two connections open at the same time, a decode or           *)
(* transport failure on one closes that connection only.  Whatever the     *)
(* other threads do, the running thread's buffer holds the bytes it        *)
(* received after its last newline, its responses are the answers to its   *)
(* own lines in order, none of them is outstanding while it reads, it      *)
(* leaves its loop only for a reason of its own connection, and a step of  *)
(* one thread changes no local of another.  The accept loop is left only   *)
(* when accept fails.                                                      *)
(***************************************************************************)
C23_FailureStaysLocal ==
    /\ [](/\ running
          /\ exit \in {"", "eof", "decode", "json", "recv", "send"}
          /\ exit = "json" => first_bad_line <= Len(sent)
          /\ pc \in {"loop", "recv"} =>
                utf8_encode(buffer) = SubSeq(stream, last_newline + 1, rcvd)
          /\ pc \in {"loop", "recv", "extract"} => Len(out) = Len(calls)
          /\ \A i \in 1..Len(out) :
                line_value(out[i]) =
                   [ok |-> TRUE,
                    v |-> process_command(impl, sent_value(i).v,
                                          calls[i].outcome).response]
          /\ \A k \in Conns : conn(k).pc = "done" <=>
                (~conn(k).client_open /\ conn(k).exit # "")
          /\ apc = "exited" => accept_errors # {})
    /\ [][cur' = cur => parked' = parked]_vars

\* C23 happens: one connection was closed for a line that is no JSON, the
\* other one is open, has its first response and holds a part of its
\* second line, and the listener waits in accept.
C23_Witness ==
    \E j, k \in Conns :
        /\ failed(j) /\ conn(j).pc = "done" /\ ~conn(j).client_open
        /\ conn(j).exit = "json"
        /\ k = cur
        /\ client_open /\ pc = "recv"
        /\ Len(out) = 1 /\ buffer # <<>>
        /\ apc = "accept"

(***************************************************************************)
(* C24.  The handler closes its connection on every way out of its loop:   *)
(* when the peer disconnects, when recv or sendall fails, when a chunk or  *)
(* a line does not decode, when the dispatcher raises, and when it sees    *)
(* the stop request.  Once the loop is left, the handler's next step is    *)
(* the close, and the handler is over only with the connection closed.     *)
(***************************************************************************)
C24_ClosedOnEveryExit ==
    /\ [](/\ exit \in {"", "eof", "recv", "send", "decode", "json", "dispatch", "stopped"}
          /\ exit # "" <=> pc \in {"close", "done"}
          /\ pc = "done" <=> ~client_open)
    /\ [][(pc = "close" /\ pc' # pc) =>
             (pc' = "done" /\ ~client_open' /\ exit' = exit /\ out' = out)]_vars

\* C24 happens: sendall failed on the response to the second command, and
\* the connection was closed.
C24_Witness ==
    /\ exit = "send"
    /\ pc = "done"
    /\ ~client_open
    /\ Len(calls) = 2
    /\ Len(out) = 1

(***************************************************************************)
(* The peer closes in the middle of a line: the client sends its lines,   *)
(* all of them or all but the last bytes of the last one, and closes.      *)
(***************************************************************************)
\* How many bytes of the last line are missing at most, its newline
\* included.
MaxCut == 2

\* The lines these clients send: a command with a handler, one with a
\* letter of two bytes, and text that is no JSON.
CutLines == {1, 2, 4}

InitCut ==
    /\ client_idle
    /\ listener_idle
    /\ impl \in {"plugin", "addon"}
    /\ running = TRUE
    /\ pc = "loop"
    /\ sent \in {choice \in Choices : \A i \in 1..Len(choice) : choice[i] \in CutLines}
    /\ \E cut \in 0..MaxCut :
          stream = SubSeq(utf8_encode(join_lines(sent)), 1,
                          Len(utf8_encode(join_lines(sent))) - cut)
    /\ rcvd = 0
    /\ buffer = <<>>
    /\ response = JLit("null")
    /\ out = <<>>
    /\ client_open = TRUE
    /\ calls = <<>>
    /\ exit = ""

\* The handler's thread goes on once the loop is left.
SpecCut == InitCut /\ [][Next]_vars /\ WF_vars(handle_client_close)

(***************************************************************************)
(* C25.  When recv returns no bytes the handler leaves its loop and closes *)
(* the connection.  The bytes it holds after the last newline are not      *)
(* dispatched and not answered: what was dispatched and written are the    *)
(* complete lines, and nothing is dispatched or written from then on.      *)
(***************************************************************************)
C25_EofLeavesRestUnanswered ==
    /\ [](exit = "eof" =>
            /\ pc \in {"close", "done"}
            /\ rcvd = Len(stream)
            /\ Len(calls) = received_lines
            /\ Len(out) = received_lines
            /\ utf8_encode(buffer) = SubSeq(stream, last_newline + 1, rcvd))
    /\ [][exit = "eof" => (calls' = calls /\ out' = out /\ buffer' = buffer)]_vars
    /\ (exit = "eof" ~> ~client_open)

\* C25 happens: the peer closed after a whole line and a second one that
\* lacks only its newline; the first was answered, the second is still in
\* the buffer, and the connection is closed.
C25_Witness ==
    /\ exit = "eof"
    /\ ~client_open
    /\ Len(sent) = 2
    /\ buffer = L_scene
    /\ Len(calls) = 1
    /\ Len(out) = 1

\* How many whole lines the client sends before it closes.
whole_lines == Cardinality(newline_places(stream))

(***************************************************************************)
(* C26.  The dispatcher is called only with the value json.loads made of   *)
(* one whole line: the i-th call has the value of the i-th line sent, that *)
(* line was received up to its newline, and it is JSON.  No call is made   *)
(* for a line that is no JSON nor for a line after it, and once recv, the  *)
(* decoding of a chunk or json.loads has failed, no call is made any more. *)
(***************************************************************************)
C26_DispatchOnlyParsedLines ==
    /\ [](/\ Len(calls) <= received_lines
          /\ Len(calls) < first_bad_line
          /\ \A i \in 1..Len(calls) :
                /\ i <= whole_lines
                /\ sent_value(i).ok
                /\ calls[i].command = sent_value(i).v)
    /\ [][(exit \in {"recv", "decode", "json"}) =>
             (calls' = calls /\ out' = out /\ rcvd' = rcvd)]_vars

\* C26 happens: the first line was dispatched and answered, then recv
\* failed before the second line was received, and the connection was
\* closed with one call made.
C26_Witness ==
    /\ exit = "recv"
    /\ pc = "done"
    /\ Len(sent) = 2
    /\ sent_value(2).ok
    /\ rcvd < Len(stream)
    /\ Len(calls) = 1
    /\ Len(out) = 1

(***************************************************************************)
(* The dispatcher on its own: one connection of the plugin on which the    *)
(* client sends one line, a mapping with a `command` value that is one of  *)
(* the eleven names, a near miss of one, or no name at all.                *)
(***************************************************************************)
capitalized(text) == <<Upper[index_of(Lower, text[1], 1)]>> \o Tail(text)

\* Each name as it is, with a capital first letter, with a space after it
\* and without its last letter; the empty string, a word that is no name,
\* and values that are no strings.
CommandValues ==
    UNION {{JStr(PluginHandlers[h]),
            JStr(capitalized(PluginHandlers[h])),
            JStr(PluginHandlers[h] \o <<" ">>),
            JStr(SubSeq(PluginHandlers[h], 1, Len(PluginHandlers[h]) - 1))} :
           h \in 1..Len(PluginHandlers)}
    \cup {JStr(<<>>), JStr(S_cube), JNum(1), JLit("null"), JLit("true"),
          JArr(<<JStr(S_get_scene_info)>>)}

InitDispatch ==
    /\ client_idle
    /\ listener_idle
    /\ impl = "plugin"
    /\ running = TRUE
    /\ pc = "loop"
    /\ sent = <<>>
    /\ \E value \in CommandValues :
          stream = utf8_encode(json_dumps(JObj(<< <<S_command, value>> >>)) \o <<"\n">>)
    /\ rcvd = 0
    /\ buffer = <<>>
    /\ response = JLit("null")
    /\ out = <<>>
    /\ client_open = TRUE
    /\ calls = <<>>
    /\ exit = ""

SpecDispatch == InitDispatch /\ [][Next]_vars

\* The place of a value among the eleven names, 0 when it is none of them.
named(value) ==
    IF \E h \in 1..Len(PluginHandlers) : value = JStr(PluginHandlers[h])
    THEN CHOOSE h \in 1..Len(PluginHandlers) : value = JStr(PluginHandlers[h])
    ELSE 0

(***************************************************************************)
(* C27.  The dispatcher routes by exact match: a `command` value that is   *)
(* one of the eleven names calls the handler of that name, once, and the   *)
(* response is what that handler returned or the error of what it raised;  *)
(* any other value, a name in another case or with a character more or     *)
(* less among them, calls no handler and is answered as an unknown         *)
(* command.                                                                *)
(***************************************************************************)
C27_ExactMatchRouting ==
    /\ Len(calls) <= 1
    /\ \A i \in 1..Len(calls) :
          LET value == command_type_of(calls[i].command)
              h == named(value)
          IN  /\ calls[i].result.handler = h
              /\ ~calls[i].result.raised
              /\ h = 0 =>
                    /\ calls[i].outcome = NoCall
                    /\ calls[i].result.response = unknown_command(value)
              /\ h # 0 =>
                    /\ calls[i].outcome \in
                          handler_outcomes("plugin", PluginHandlers[h], calls[i].command)
                    /\ calls[i].outcome[1] = "return" =>
                          calls[i].result.response = calls[i].outcome[2]
                    /\ calls[i].outcome[1] = "raise" =>
                          calls[i].result.response =
                             error_response(S_error_processing \o calls[i].outcome[2])

\* C27 happens: execute_python, the last name of the chain, was sent and
\* its handler's response is written.
C27_Witness ==
    /\ Len(calls) = 1
    /\ command_type_of(calls[1].command) = JStr(S_execute_python)
    /\ calls[1].result.handler = 11
    /\ Len(out) = 1

\* C27 happens for a near miss: Get_scene_info was answered as an unknown
\* command.
C27_WitnessNearMiss ==
    /\ Len(calls) = 1
    /\ command_type_of(calls[1].command) = JStr(capitalized(S_get_scene_info))
    /\ calls[1].result.handler = 0
    /\ Len(out) = 1

(***************************************************************************)
(* C28 as claimed.  send_to_c4d goes on receiving while no chunk has held  *)
(* a newline and the peer has not closed, and what it parses is all it     *)
(* has accumulated.  It consumes one response line: when its loop ends on  *)
(* a newline, that newline is the last byte it has taken from the peer.    *)
(***************************************************************************)
C28_OneResponseLine ==
    /\ response_data = SubSeq(peer_bytes, 1, Len(response_data))
    /\ cpc = "recv" => newline_places(response_data) = {}
    /\ cpc = "parse" =>
          /\ Len(response_data) = peer_rcvd
          /\ newline_places(response_data) = {} => peer_rcvd = Len(peer_bytes)
          /\ newline_places(response_data) # {} => one_line(response_data)
    /\ (cpc = "format" /\ fault = "" /\ requests # <<>>) =>
          result = response_of(response_data)

(***************************************************************************)
(* Either side on its own, as far as it reads and writes its socket: a     *)
(* connection served by handle_client, or one invocation of the            *)
(* list_objects tool up to the end of the receive loop of send_to_c4d.     *)
(* What the tool does with the bytes it received is in SpecClient.         *)
(***************************************************************************)
InitEither == Init \/ InitClient

NextEither ==
    \/ Next
    \/ ctx_connect
    \/ \E reason \in {"refused", "timeout"} : ctx_connect_error(reason)
    \/ list_objects_enter
    \/ send_to_c4d_sendall
    \/ send_to_c4d_sendall_error
    \/ \E n \in 1..(Len(peer_bytes) - peer_rcvd) : send_to_c4d_recv(n)
    \/ send_to_c4d_recv_eof
    \/ send_to_c4d_recv_error
    \/ ctx_exit

SpecEither == InitEither /\ [][NextEither]_vars

is_error(val) == is_mapping(val) /\ dict_has(val, S_error) /\ Len(Payload(val)) = 1

(***************************************************************************)
(* C29.  No retries.  The client never comes back to its connect once a    *)
(* socket was created, passes its command to sendall at most once, and     *)
(* after a failure neither sends nor receives again: the failure is what   *)
(* the call returns, an error mapping, or the tool's text that it is not   *)
(* connected.  The server dispatches each line at most once, in order, and *)
(* after a failure neither reads, dispatches nor writes: it goes on to     *)
(* close the connection.                                                   *)
(***************************************************************************)
C29_NoRetries ==
    /\ [](/\ Len(requests) <= 1
          /\ fault \in {"send", "recv"} => (cpc \in {"format", "exit", "done"} /\ is_error(result))
          /\ (fault \in {"refused", "timeout"} /\ cpc \in {"exit", "done"}) =>
                (tool = returns(S_tool_not_connected) /\ requests = <<>>)
          /\ Len(calls) <= received_lines
          /\ \A i \in 1..Len(calls) : calls[i].command = sent_value(i).v
          /\ exit # "" => pc \in {"close", "done"})
    /\ [][(sock # "none") => (cpc' # "enter" /\ sock' # "none")]_vars
    /\ [][(fault # "") =>
             (fault' = fault /\ requests' = requests /\ peer_rcvd' = peer_rcvd
                /\ response_data' = response_data
                /\ (result # NoResult => result' = result))]_vars
    /\ [][(exit \in {"recv", "send", "decode", "json", "dispatch"}) =>
             (exit' = exit /\ rcvd' = rcvd /\ calls' = calls /\ out' = out
                /\ buffer' = buffer)]_vars

\* C29 happens: recv failed after the command was sent once, and
\* send_to_c4d has returned the error of that failure.
C29_Witness ==
    /\ fault = "recv"
    /\ cpc = "format"
    /\ Len(requests) = 1
    /\ is_error(result)
    /\ ~tool.raised

\* What the reader of a written line gets: the text before the first
\* newline, parsed.
framed_value(bytes) ==
    IF index_of(bytes, "\n", 1) = Len(bytes) THEN line_value(bytes)
    ELSE json_loads(split_message(utf8_decode(bytes).text))

(***************************************************************************)
(* C30.  Framing round trip.  Every line the client writes and every line  *)
(* the server writes holds one newline, its last byte, also when a string  *)
(* of the value holds a newline; cutting the line at its first newline and *)
(* parsing gives the value that was serialized.                            *)
(***************************************************************************)
C30_FramingRoundTrip ==
    /\ \A i \in 1..Len(out) :
          /\ Cardinality(newline_places(out[i])) = 1
          /\ out[i][Len(out[i])] = "\n"
          /\ framed_value(out[i]) = [ok |-> TRUE, v |-> calls[i].result.response]
    /\ \A i \in 1..Len(requests) :
          /\ Cardinality(newline_places(requests[i])) = 1
          /\ requests[i][Len(requests[i])] = "\n"
          /\ framed_value(requests[i]) = [ok |-> TRUE, v |-> list_objects_command]

\* Some string of a value holds a newline.
RECURSIVE holds_newline(_)
holds_newline(val) ==
    CASE Tag(val) = "str" -> \E i \in 1..Len(Payload(val)) : Payload(val)[i] = "\n"
      [] Tag(val) = "arr" -> \E i \in 1..Len(Payload(val)) : holds_newline(Payload(val)[i])
      [] Tag(val) = "obj" ->
            \E i \in 1..Len(Payload(val)) : holds_newline(Payload(val)[i][2])
      [] OTHER -> FALSE

\* C30 happens: the server has written a response with a newline inside a
\* string.
C30_Witness ==
    /\ Len(out) >= 1
    /\ holds_newline(calls[1].result.response)
    /\ client_open

(***************************************************************************)
(* Lines that are JSON but no mapping: one connection on which the client  *)
(* sends two lines, a value that is no mapping and get_scene_info, in      *)
(* either order, or get_scene_info alone.                                  *)
(***************************************************************************)
\* A list, empty and not, a number, a float, a string that is the name of
\* a command, the booleans and null.
BareValues ==
    {JArr(<<>>), JArr(<<JObj(<< <<S_command, JStr(S_get_scene_info)>> >>)>>),
     JNum(1), JFlt(<<"1", ".", "5">>), JStr(S_get_scene_info), JStr(<<>>),
     JLit("true"), JLit("false"), JLit("null")}

InitBare ==
    /\ client_idle
    /\ listener_idle
    /\ impl \in {"plugin", "addon"}
    /\ running = TRUE
    /\ pc = "loop"
    /\ sent = <<>>
    /\ \E value \in BareValues :
          LET bare == utf8_encode(json_dumps(value) \o <<"\n">>)
              scene == utf8_encode(L_scene \o <<"\n">>)
          IN  stream \in {bare \o scene, scene \o bare, scene}
    /\ rcvd = 0
    /\ buffer = <<>>
    /\ response = JLit("null")
    /\ out = <<>>
    /\ client_open = TRUE
    /\ calls = <<>>
    /\ exit = ""

\* client.close() follows the loop unconditionally: a handler that has left
\* its loop goes on to close.
SpecBare == InitBare /\ [][Next]_vars /\ WF_vars(handle_client_close)

(***************************************************************************)
(* C31.  A line that parses as JSON but is no mapping is passed to         *)
(* process_command, which raises on it before it reaches a handler: the    *)
(* line is the last one dispatched on its connection, no handler is        *)
(* called for it, no response is written for it, nothing is written after  *)
(* it, and the connection is closed.                                       *)
(***************************************************************************)
C31_NonMappingClosesSilently ==
    /\ [](\A i \in 1..Len(calls) :
             Tag(calls[i].command) # "obj" =>
                /\ i = Len(calls)
                /\ calls[i].result = NotDispatched
                /\ calls[i].outcome = NoCall
                /\ Len(out) = i - 1
                /\ pc \in {"close", "done"}
                /\ exit = "dispatch")
    /\ (exit = "dispatch") ~> (~client_open /\ pc = "done")

\* C31 happens: a string that names a command came first, the connection
\* is closed with nothing written, get_scene_info behind it was received
\* and never dispatched.
C31_Witness ==
    /\ Len(calls) = 1
    /\ calls[1].command = JStr(S_get_scene_info)
    /\ pc = "done"
    /\ ~client_open
    /\ out = <<>>
    /\ rcvd = Len(stream)
    /\ buffer = L_scene \o <<"\n">>

(***************************************************************************)
(* stop() while a connection is served: the listener is started, one       *)
(* client has connected and waits to be accepted, and the host calls stop  *)
(* at any point, before or after the client is accepted and wherever its   *)
(* handler is.                                                             *)
(***************************************************************************)
\* What the client sends: one or two lines, a command with a handler, an
\* unknown command, a value that is no mapping.
StopChoices == {<<1>>, <<3>>, <<3, 3>>, <<3, 1>>, <<3, 5>>}

InitStop ==
    /\ client_idle
    /\ impl \in {"plugin", "addon"}
    /\ running = TRUE
    /\ lsock = "listening"
    /\ apc = "test"
    /\ spc = "idle"
    /\ log = <<"started">>
    /\ accepted = 0
    /\ cur = 1
    /\ parked = <<>>
    /\ exec_idle
    /\ host_idle
    /\ main_idle
    /\ pc = "wait"
    /\ sent \in StopChoices
    /\ stream = utf8_encode(join_lines(sent))
    /\ rcvd = 0
    /\ buffer = <<>>
    /\ response = JLit("null")
    /\ out = <<>>
    /\ client_open = FALSE
    /\ calls = <<>>
    /\ exit = ""

NextStop ==
    \/ accept_test
    \/ accept_enter
    \/ accept_spawn
    \/ accept_error
    \/ accept_closed
    \/ stop_clear
    \/ stop_close
    \/ handle_client_loop
    \/ \E n \in 1..(Len(stream) - rcvd) : handle_client_recv(n)
    \/ handle_client_eof
    \/ handle_client_recv_error
    \/ handle_client_extract
    \/ handle_client_send
    \/ handle_client_send_error
    \/ handle_client_close

\* The number of newlines in a text.
newlines(text) == Cardinality({i \in 1..Len(text) : text[i] = "\n"})

\* The loop test and client.close() do not wait for anything: a handler
\* that is at one of them goes on.
SpecStop ==
    /\ InitStop
    /\ [][NextStop]_vars
    /\ WF_vars(handle_client_loop)
    /\ WF_vars(handle_client_close)

(***************************************************************************)
(* C32.  Once stop() has cleared the running flag, no handler enters       *)
(* recv: a handler that waits in recv takes the one chunk that recv        *)
(* returns, and from there every step it takes either uses up a line of    *)
(* its buffer or brings it to the loop test or the close; at the loop      *)
(* test it leaves as stopped and closes its connection.  A connection      *)
(* that is accepted after the flag was cleared never receives or           *)
(* dispatches anything, and is closed as stopped.                          *)
(***************************************************************************)
C32_StopDrainsOneChunk ==
    /\ [][(~running /\ pc' = "recv") => pc = "recv"]_vars
    /\ [][(pc = "recv" /\ pc' = "recv") => (rcvd' = rcvd /\ calls' = calls)]_vars
    /\ [][(pc = "extract" /\ pc' # pc) =>
             \/ pc' = "loop" /\ newlines(buffer) = 0 /\ calls' = calls
             \/ pc' \in {"send", "close"} /\ newlines(buffer') < newlines(buffer)]_vars
    /\ [][(pc = "send" /\ pc' # pc) =>
             (pc' \in {"extract", "close"} /\ buffer' = buffer /\ calls' = calls)]_vars
    /\ [](~running /\ pc \in {"loop", "close"}
            => <>(~client_open /\ pc = "done"))
    /\ []((~running /\ pc = "wait")
            => [](rcvd = 0 /\ calls = <<>> /\ out = <<>>
                  /\ exit \in {"", "stopped"}))

\* The handler waits in recv with the flag cleared and both lines still to
\* come.
C32_WitnessBlocked ==
    /\ ~running
    /\ pc = "recv"
    /\ rcvd = 0
    /\ Len(sent) = 2

\* C32 happens: with the flag cleared the handler has answered both lines,
\* found the flag cleared at its loop test and closed.
C32_Witness ==
    /\ ~running
    /\ exit = "stopped"
    /\ pc = "done"
    /\ ~client_open
    /\ Len(sent) = 2
    /\ Len(calls) = 2
    /\ Len(out) = 2

\* C32 happens for a connection accepted after the flag was cleared: it is
\* closed, and nothing of what the client sent was received.
C32_WitnessLate ==
    /\ spc = "stopped"
    /\ accepted = 1
    /\ pc = "done"
    /\ ~client_open
    /\ exit = "stopped"
    /\ rcvd = 0
    /\ calls = <<>>

(***************************************************************************)
(* C33 as claimed.  c4d_connection_context yields once per use on every    *)
(* path, also when the tool's body raises after the connect: an            *)
(* invocation that is over has had one yield, and when it ended with an    *)
(* exception of a connected tool its socket is closed.                     *)
(***************************************************************************)
C33_YieldsOncePerUse ==
    /\ yields <= 1
    /\ cpc = "done" => yields = 1
    /\ (cpc = "done" /\ tool.raised /\ conn_sock) => sock = "closed"

(***************************************************************************)
(* handle_execute_python on two connections at once.  Every accepted       *)
(* client has its own handler thread, and sys.stdout is one attribute of   *)
(* the process: a thread can be suspended between any two of the           *)
(* statements of handle_execute_python.                                    *)
(***************************************************************************)
\* How many execute_python commands a connection sends, one after the
\* other.
MaxExec == 2

\* The StringIO that thread k makes in its call number r.
redirected_output(k, r) == <<k, r>>

InitExec ==
    /\ server_idle
    /\ client_idle
    /\ lsock = "none"
    /\ apc = "none"
    /\ spc = "idle"
    /\ log = <<>>
    /\ accepted = 0
    /\ cur = 1
    /\ parked = <<>>
    /\ host_idle
    /\ main_idle
    /\ sys_stdout = Console
    /\ ex = [k \in Conns |-> [pc |-> "idle", old_stdout |-> Console, runs |-> 0]]

\* A step of thread k in handle_execute_python, from the given place.
exec_step(k, place) ==
    /\ ex[k].pc = place
    /\ UNCHANGED <<server_vars, client_vars, host_vars, main_vars, cur, parked, lsock, apc, spc, log,
                   accepted>>

\* old_stdout = sys.stdout
exec_save(k) ==
    /\ exec_step(k, "idle")
    /\ ex[k].runs < MaxExec
    /\ ex' = [ex EXCEPT ![k] = [pc |-> "saved", old_stdout |-> sys_stdout,
                                runs |-> @.runs + 1]]
    /\ sys_stdout' = sys_stdout

\* redirected_output = io.StringIO(); sys.stdout = redirected_output
exec_redirect(k) ==
    /\ exec_step(k, "saved")
    /\ ex' = [ex EXCEPT ![k].pc = "redirected"]
    /\ sys_stdout' = redirected_output(k, ex[k].runs)

\* exec(script) returns or raises, and the except clause takes what it
\* raises; the script leaves sys.stdout alone.
exec_script(k) ==
    /\ exec_step(k, "redirected")
    /\ ex' = [ex EXCEPT ![k].pc = "finally"]
    /\ sys_stdout' = sys_stdout

\* finally: sys.stdout = old_stdout; return {"result": output}
exec_restore(k) ==
    /\ exec_step(k, "finally")
    /\ ex' = [ex EXCEPT ![k].pc = "idle"]
    /\ sys_stdout' = ex[k].old_stdout

NextExec ==
    \E k \in Conns :
        \/ exec_save(k)
        \/ exec_redirect(k)
        \/ exec_script(k)
        \/ exec_restore(k)

SpecExec == InitExec /\ [][NextExec]_vars

(***************************************************************************)
(* C34 as claimed.  When no call of handle_execute_python is under way,    *)
(* sys.stdout is the stream it was before the first call started,          *)
(* whatever the interleaving of the calls on the two connections was.      *)
(***************************************************************************)
C34_StdoutRestored ==
    (\A k \in Conns : ex[k].pc = "idle") => sys_stdout = Console

(***************************************************************************)
(* The handlers' effect on the host.  A document is [name, objects,        *)
(* materials, time, xres, yres, path]: its objects in order, each [name,   *)
(* position, rotation, scale, tags, keys], the names of its materials,     *)
(* its frame, and the width, height and output path of its active render   *)
(* data.  A call of a handler ends as [doc, res]: the document it leaves   *)
(* and what it returned or raised.                                         *)
(***************************************************************************)
S_property_name == <<"p", "r", "o", "p", "e", "r", "t", "y", "_", "n", "a", "m", "e">>
S_value == <<"v", "a", "l", "u", "e">>
S_frame == <<"f", "r", "a", "m", "e">>
S_rotation == <<"r", "o", "t", "a", "t", "i", "o", "n">>
S_scale == <<"s", "c", "a", "l", "e">>
S_unknown_property == <<"U", "n", "k", "n", "o", "w", "n", " ", "p", "r", "o", "p", "e", "r", "t", "y", ":", " ">>
S_could_not_set == <<"C", "o", "u", "l", "d", " ", "n", "o", "t", " ", "s", "e", "t", " ", "p", "r", "o", "p", "e", "r", "t", "y", ":", " ">>

returned(d, val) == [doc |-> d, res |-> <<"return", val>>]
raised(d, message) == [doc |-> d, res |-> <<"raise", message>>]

Origin == JArr(<<JFlt(<<"0", ".", "0">>), JFlt(<<"0", ".", "0">>), JFlt(<<"0", ".", "0">>)>>)
Unit == JArr(<<JFlt(<<"1", ".", "0">>), JFlt(<<"1", ".", "0">>), JFlt(<<"1", ".", "0">>)>>)

\* c4d.BaseObject(...) with the name and position set
base_object(name, position) ==
    [name |-> name, position |-> position, rotation |-> Origin, scale |-> Unit,
     tags |-> <<>>, keys |-> 0]

\* A document with a cube and a material.
StockDocument ==
    [NewDocument EXCEPT !.objects = <<base_object(S_cube, Origin)>>,
                        !.materials = <<S_Material>>]

\* find_object_by_name, find_material_by_name: the place of the first
\* name that equals the value, 0 for None.
find_by_name(names, val) ==
    IF \E i \in 1..Len(names) : JStr(names[i]) = val
    THEN CHOOSE i \in 1..Len(names) :
            JStr(names[i]) = val /\ \A j \in 1..(i - 1) : JStr(names[j]) # val
    ELSE 0

find_object_by_name(d, val) ==
    find_by_name([i \in 1..Len(d.objects) |-> d.objects[i].name], val)

find_material_by_name(d, val) == find_by_name(d.materials, val)

\* handle_add_primitive: the object is inserted after everything that can
\* fail on the command's fields.
run_add_primitive(d, command) ==
    IF handle_add_primitive(command) = {} THEN {raised(d, HostFailure)}
    ELSE {IF dict_has(r, S_error) THEN returned(d, r)
          ELSE LET made == dict_get(r, S_object, JObj(<<>>))
               IN  returned([d EXCEPT !.objects =
                                Append(@, base_object(
                                    Payload(dict_get(made, S_name, JStr(<<>>))),
                                    dict_get(made, S_position, Origin)))],
                            r) :
          r \in handle_add_primitive(command)}

\* isinstance(value, list) and len(value) == 3
is_triple(val) == Tag(val) = "arr" /\ Len(Payload(val)) = 3

\* The loop over properties.items() from item i on: [obj, ok]; ok is false
\* when c4d.Vector(*value), or the conversion to radians, raised.
RECURSIVE apply_properties(_, _, _)
apply_properties(obj, items, i) ==
    IF i > Len(items) THEN [obj |-> obj, ok |-> TRUE]
    ELSE LET prop == items[i][1]
             value == items[i][2]
         IN  IF prop \in {S_position, S_rotation, S_scale}
             THEN IF ~is_triple(value) THEN apply_properties(obj, items, i + 1)
                  ELSE IF ~is_vector(value) THEN [obj |-> obj, ok |-> FALSE]
                  ELSE apply_properties(
                           IF prop = S_position
                           THEN [obj EXCEPT !.position = vector_of(value)]
                           ELSE IF prop = S_rotation
                           THEN [obj EXCEPT !.rotation = <<"rad", vector_of(value)>>]
                           ELSE [obj EXCEPT !.scale = vector_of(value)],
                           items, i + 1)
             ELSE IF prop = S_name
             THEN apply_properties([obj EXCEPT !.name = py_str(value)], items, i + 1)
             ELSE apply_properties(obj, items, i + 1)   \* try: obj[prop] = value except: print

run_modify_object(d, command) ==
    LET object_name == dict_get(command, S_object_name, JStr(<<>>))
        properties == dict_get(command, S_properties, JObj(<<>>))
        i == find_object_by_name(d, object_name)
    IN  IF i = 0
        THEN {returned(d, error_response(S_object_not_found \o py_str(object_name)))}
        ELSE IF Tag(properties) # "obj" THEN {raised(d, HostFailure)}
        ELSE LET done == apply_properties(d.objects[i], Payload(properties), 1)
                 after == [d EXCEPT !.objects[i] = done.obj]
             IN  IF ~done.ok THEN {raised(after, HostFailure)}
                 ELSE {returned(after,
                          JObj(<< <<S_success, JLit("true")>>,
                                  <<S_object_name, JStr(done.obj.name)>> >>))}

run_apply_material(d, command) ==
    LET material_name == dict_get(command, S_material_name, JStr(<<>>))
        object_name == dict_get(command, S_object_name, JStr(<<>>))
        mat == find_material_by_name(d, material_name)
        i == find_object_by_name(d, object_name)
    IN  IF mat = 0
        THEN {returned(d, error_response(S_material_not_found \o py_str(material_name)))}
        ELSE IF i = 0
        THEN {returned(d, error_response(S_object_not_found \o py_str(object_name)))}
        ELSE {returned([d EXCEPT !.objects[i].tags = Append(@, d.materials[mat])],
                       JObj(<< <<S_success, JLit("true")>>,
                               <<S_material_name, material_name>>,
                               <<S_object_name, object_name>> >>))}

\* The render data the command sets, as far as it gets: a value the host
\* does not take raises and leaves the ones before it set.
render_data_set(d, command) ==
    LET output_path == dict_get(command, S_output_path, JLit("null"))
        width == dict_get(command, S_width, JLit("null"))
        height == dict_get(command, S_height, JLit("null"))
        none == JLit("null")
        d1 == IF width # none THEN [d EXCEPT !.xres = width] ELSE d
        d2 == IF height # none THEN [d1 EXCEPT !.yres = height] ELSE d1
        d3 == IF output_path # none THEN [d2 EXCEPT !.path = output_path] ELSE d2
    IN  IF width # none /\ Tag(width) # "num" THEN [doc |-> d, ok |-> FALSE]
        ELSE IF height # none /\ Tag(height) # "num" THEN [doc |-> d1, ok |-> FALSE]
        ELSE IF output_path # none /\ Tag(output_path) # "str"
        THEN [doc |-> d2, ok |-> FALSE]
        ELSE [doc |-> d3, ok |-> TRUE]

\* handle_render_frame: the old render data is written back before each of
\* the two returns, and nowhere else.  RenderDocument gives a bitmap or
\* none, or raises; bitmap.Save is called when there is a path, and may
\* raise.
run_render_frame(d, command) ==
    LET set == render_data_set(d, command)
        output_path == dict_get(command, S_output_path, JLit("null"))
        final_path == IF ~falsy(output_path) THEN output_path ELSE set.doc.path
    IN  IF ~set.ok THEN {raised(set.doc, HostFailure)}
        ELSE {raised(set.doc, HostFailure),
              returned(d, error_response(S_render_failed)),
              returned(d, JObj(<< <<S_render_info,
                                    JObj(<< <<S_path, final_path>>,
                                            <<S_width, set.doc.xres>>,
                                            <<S_height, set.doc.yres>>,
                                            <<S_render_time, JFlt(<<"0", ".", "5">>)>> >>)>> >>))}

\* A value Python takes for a number: bool is a kind of int.
numeric(val) == is_number(val) \/ val \in {JLit("true"), JLit("false")}

\* "." in property_name, for a list or a mapping
holds_dot(val) ==
    IF Tag(val) = "arr" THEN \E k \in 1..Len(Payload(val)) : Payload(val)[k] = JStr(<<".">>)
    ELSE dict_has(val, <<".">>)

\* The first and the second part of property_name.split(".")
split_parts(text) ==
    LET dot == index_of(text, ".", 1)
        rest == SubSeq(text, dot + 1, Len(text))
        more == index_of(rest, ".", 1)
    IN  <<SubSeq(text, 1, dot - 1),
          IF more = 0 THEN rest ELSE SubSeq(rest, 1, more - 1)>>

\* pos.x = value, pos.y = value or pos.z = value on a vector
with_component(vec, sub_prop, value) ==
    LET k == IF sub_prop = <<"x">> THEN 1 ELSE IF sub_prop = <<"y">> THEN 2
             ELSE IF sub_prop = <<"z">> THEN 3 ELSE 0
    IN  IF k = 0 THEN vec ELSE JArr([Payload(vec) EXCEPT ![k] = to_float(value)])

\* handle_set_keyframe: doc.SetTime comes right after the object is found,
\* before the property name is looked at.  FindCTrack and the calls after
\* it are the host's: they make the key or raise.
run_set_keyframe(d, command) ==
    LET object_name == dict_get(command, S_object_name, JStr(<<>>))
        property_name == dict_get(command, S_property_name, JStr(<<>>))
        value == dict_get(command, S_value, JLit("null"))
        frame == dict_get(command, S_frame, JNum(0))
        i == find_object_by_name(d, object_name)
    IN  IF i = 0
        THEN {returned(d, error_response(S_object_not_found \o py_str(object_name)))}
        ELSE IF ~numeric(frame) THEN {raised(d, HostFailure)}
        ELSE LET timed == [d EXCEPT !.time = frame]
             IN  IF Tag(property_name) \in {"num", "flt", "lit"}
                 THEN {raised(timed, HostFailure)}      \* "." in property_name raises
                 ELSE IF Tag(property_name) # "str"
                 THEN IF holds_dot(property_name)
                      THEN {raised(timed, HostFailure)}  \* no split on a list or dict
                      ELSE {returned(timed, error_response(S_could_not_set
                                                 \o py_str(property_name)))}
                 ELSE IF index_of(Payload(property_name), ".", 1) = 0
                 THEN {returned(timed, error_response(S_could_not_set
                                                       \o Payload(property_name)))}
                 ELSE LET base_prop == split_parts(Payload(property_name))[1]
                          sub_prop == split_parts(Payload(property_name))[2]
                      IN  IF base_prop \notin {S_position, S_rotation, S_scale}
                          THEN {returned(timed, error_response(S_unknown_property
                                                 \o Payload(property_name)))}
                          ELSE IF ~numeric(value) /\ (base_prop = S_rotation
                                     \/ sub_prop \in {<<"x">>, <<"y">>, <<"z">>})
                          THEN {raised(timed, HostFailure)}
                          ELSE LET obj == d.objects[i]
                                   moved ==
                                     IF base_prop = S_position
                                     THEN [obj EXCEPT !.position =
                                              with_component(@, sub_prop, value)]
                                     ELSE IF base_prop = S_rotation
                                     THEN [obj EXCEPT !.rotation =
                                              <<"rad", with_component(
                                                 IF @[1] = "rad" THEN @[2] ELSE @,
                                                 sub_prop, value)>>]
                                     ELSE [obj EXCEPT !.scale =
                                              with_component(@, sub_prop, value)]
                                   set == [timed EXCEPT !.objects[i] = moved]
                               IN  {raised(set, HostFailure),
                                    returned([set EXCEPT !.objects[i].keys = @ + 1],
                                       JObj(<< <<S_success, JLit("true")>>,
                                               <<S_object_name, object_name>>,
                                               <<S_property_name, property_name>>,
                                               <<S_value, value>>,
                                               <<S_frame, frame>> >>))}

\* handle_load_scene: os.path.exists is its first call on the host, and the
\* plugin does not import os.
run_load_scene(d, command) == {raised(d, S_os_not_defined)}

\* The handlers that change the host, by name.
SceneHandlers == <<S_add_primitive, S_modify_object, S_apply_material,
                   S_set_keyframe, S_render_frame, S_load_scene>>

run_handler(name, d, command) ==
    CASE name = S_add_primitive   -> run_add_primitive(d, command)
      [] name = S_modify_object   -> run_modify_object(d, command)
      [] name = S_apply_material  -> run_apply_material(d, command)
      [] name = S_set_keyframe    -> run_set_keyframe(d, command)
      [] name = S_render_frame    -> run_render_frame(d, command)
      [] OTHER                    -> run_load_scene(d, command)

(***************************************************************************)
(* Commands on the host, one after the other: process_command of the       *)
(* plugin calls the handler, which leaves the document as it leaves it,    *)
(* and turns what the handler raises into an error response.               *)
(***************************************************************************)
\* How many commands are run.
MaxCommands == 2

command_of(name, fields) == JObj(<< <<S_command, JStr(name)>> >> \o fields)

One23 == JArr(<<JNum(1), JNum(2), JNum(3)>>)

\* Commands of the six handlers: with their defaults, on the cube or on an
\* object that is not there, with fields the handler takes and fields it
\* does not.
SceneCommands ==
    {command_of(S_add_primitive, <<>>),
     command_of(S_add_primitive, << <<S_type, JStr(S_Material)>> >>),
     command_of(S_add_primitive, << <<S_position, JStr(S_cube)>> >>),
     command_of(S_modify_object, <<>>),
     command_of(S_modify_object,
                << <<S_object_name, JStr(S_cube)>>,
                   <<S_properties, JObj(<< <<S_position, One23>> >>)>> >>),
     command_of(S_modify_object,
                << <<S_object_name, JStr(S_cube)>>,
                   <<S_properties,
                     JObj(<< <<S_name, JStr(S_plane)>>,
                             <<S_scale, JArr(<<JNum(1), JStr(S_cube), JNum(3)>>)>> >>)>> >>),
     command_of(S_apply_material,
                << <<S_material_name, JStr(S_Material)>>, <<S_object_name, JStr(S_cube)>> >>),
     command_of(S_apply_material,
                << <<S_material_name, JStr(S_Material)>>, <<S_object_name, JStr(S_plane)>> >>),
     command_of(S_apply_material, << <<S_object_name, JStr(S_cube)>> >>),
     command_of(S_set_keyframe, << <<S_frame, JNum(10)>> >>),
     command_of(S_set_keyframe,
                << <<S_object_name, JStr(S_cube)>>, <<S_frame, JNum(10)>>,
                   <<S_property_name, JStr(S_position \o <<".", "x">>)>>,
                   <<S_value, JNum(5)>> >>),
     command_of(S_set_keyframe,
                << <<S_object_name, JStr(S_cube)>>, <<S_frame, JNum(10)>>,
                   <<S_property_name, JStr(S_color \o <<".", "x">>)>>,
                   <<S_value, JNum(5)>> >>),
     command_of(S_set_keyframe,
                << <<S_object_name, JStr(S_cube)>>, <<S_frame, JNum(10)>>,
                   <<S_property_name, JStr(S_name)>>, <<S_value, JNum(5)>> >>),
     command_of(S_render_frame, <<>>),
     command_of(S_render_frame,
                << <<S_width, JNum(640)>>, <<S_height, JNum(480)>>,
                   <<S_output_path, JStr(S_cube)>> >>),
     command_of(S_render_frame,
                << <<S_width, JNum(640)>>, <<S_height, JStr(S_cube)>> >>),
     command_of(S_load_scene, << <<S_file_path, JStr(S_cube)>> >>)}

InitScene ==
    /\ server_idle
    /\ client_idle
    /\ exec_idle
    /\ main_idle
    /\ lsock = "none"
    /\ apc = "none"
    /\ spc = "idle"
    /\ log = <<>>
    /\ accepted = 0
    /\ cur = 1
    /\ parked = <<>>
    /\ doc \in {NewDocument, StockDocument}
    /\ scene_log = <<>>

\* process_command on the host: the handler of the command runs to its
\* return or to what it raises.
process_on_host ==
    /\ Len(scene_log) < MaxCommands
    /\ \E command \in SceneCommands :
          \E ending \in run_handler(Payload(command_type_of(command)), doc, command) :
             /\ doc' = ending.doc
             /\ scene_log' =
                   Append(scene_log,
                          [command |-> command, before |-> doc, res |-> ending.res,
                           response |-> dispatch("plugin", command_type_of(command),
                                                 ending.res).response,
                           after |-> ending.doc])
    /\ UNCHANGED <<server_vars, client_vars, exec_vars, main_vars, cur, parked, lsock, apc, spc, log,
                   accepted>>

SpecScene == InitScene /\ [][process_on_host]_vars

\* The name of the handler an entry of scene_log ran.
handler_of(entry) == Payload(command_type_of(entry.command))

(***************************************************************************)
(* C35 as claimed.  A call of add_primitive, modify_object,                *)
(* apply_material, set_keyframe, render_frame or load_scene whose handler  *)
(* returns an `error` response leaves the document, its objects,           *)
(* materials, time and render data, as it was before the command.          *)
(***************************************************************************)
C35_ErrorLeavesSceneUntouched ==
    \A i \in 1..Len(scene_log) :
        (/\ scene_log[i].res[1] = "return"
         /\ dict_has(scene_log[i].res[2], S_error))
        => scene_log[i].after = scene_log[i].before

(***************************************************************************)
(* C36 as claimed.  render_frame leaves the width, the height and the      *)
(* output path of the document's render data as they were before the       *)
(* command, however the command ends: with a render, without a bitmap, or  *)
(* with an exception that process_command turns into an error response.    *)
(***************************************************************************)
C36_RenderSettingsRestored ==
    \A i \in 1..Len(scene_log) :
        handler_of(scene_log[i]) = S_render_frame =>
            /\ scene_log[i].after.xres = scene_log[i].before.xres
            /\ scene_log[i].after.yres = scene_log[i].before.yres
            /\ scene_log[i].after.path = scene_log[i].before.path

\* The place in log of the last call of start, 0 before the first.
last_start ==
    IF \E i \in 1..Len(log) : log[i] \in {"started", "start_error"}
    THEN CHOOSE i \in 1..Len(log) :
            /\ log[i] \in {"started", "start_error"}
            /\ \A j \in (i + 1)..Len(log) : log[j] \notin {"started", "start_error"}
    ELSE 0

\* The last call of start failed in bind or listen.
start_failed == last_start # 0 /\ log[last_start] = "start_error"

(***************************************************************************)
(* C37.  A call of start in which bind or listen fails prints the failure  *)
(* and returns without setting the running flag and without starting an    *)
(* accept thread.  From then on, until start is called again, the server   *)
(* is not running, has no accept thread at work and no listening socket,   *)
(* and accepts no client; a server whose only start has failed has never   *)
(* accepted one.                                                           *)
(***************************************************************************)
C37_FailedStartAcceptsNothing ==
    /\ [][(log' = Append(log, "start_error")) =>
             (/\ ~running /\ ~running'
              /\ apc' = apc
              /\ apc \in {"none", "exited"}
              /\ lsock' = "unbound"
              /\ accepted' = accepted)]_vars
    /\ [](start_failed =>
             (~running /\ apc \in {"none", "exited"} /\ lsock \in {"unbound", "closed"}))
    /\ [][(start_failed /\ start_failed') => accepted' = accepted]_vars
    /\ []((start_failed /\ count_of(log, "started") = 0) => accepted = 0)

\* C37 happens: the first start has failed, and stop was called on the
\* server afterwards.
C37_Witness ==
    /\ log = <<"start_error", "stopped">>
    /\ ~running
    /\ apc = "none"
    /\ accepted = 0

\* C37 happens on a server that ran before: it was started, accepted a
\* client and was stopped, and the next start has failed.
C37_WitnessAgain ==
    /\ start_failed
    /\ count_of(log, "started") = 1
    /\ accepted = 1
    /\ ~running
    /\ apc = "exited"

(***************************************************************************)
(* C38.  The loop `while '\n' in buffer` ends: a pass that finds a newline *)
(* cuts the buffer down to what follows its first newline, so the buffer   *)
(* has one newline less, and a pass that finds none leaves the loop with   *)
(* the buffer as it is.  When the handler calls recv, its buffer holds no  *)
(* newline: it is the text of the bytes received after the last newline    *)
(* received.                                                               *)
(***************************************************************************)
C38_ExtractionEndsOnBareBuffer ==
    /\ [][(pc = "extract" /\ (pc' # pc \/ buffer' # buffer)) =>
             IF first_newline(buffer) = 0
             THEN pc' = "loop" /\ buffer' = buffer /\ calls' = calls
             ELSE /\ buffer' = SubSeq(buffer, first_newline(buffer) + 1, Len(buffer))
                  /\ newlines(buffer') = newlines(buffer) - 1
                  /\ Len(buffer') < Len(buffer)
                  /\ pc' \in {"send", "close"}]_vars
    /\ [][(pc \in {"send", "loop"} /\ pc' # pc) => buffer' = buffer]_vars
    /\ [](pc = "recv" =>
             /\ newlines(buffer) = 0
             /\ utf8_encode(buffer) = SubSeq(stream, last_newline + 1, rcvd))

\* C38 happens: the handler has cut the first line off a chunk that held
\* more, has answered it, and calls recv with the start of the second line
\* in its buffer.
C38_Witness ==
    /\ pc = "recv"
    /\ Len(sent) = 2
    /\ Len(calls) = 1
    /\ Len(out) = 1
    /\ buffer # <<>>
    /\ last_newline < rcvd
    /\ rcvd < Len(stream)

(***************************************************************************)
(* main: the host calls it when it loads the plugin, and may call it       *)
(* again.  The module's global socket_server is None until the first call  *)
(* makes the server and starts it.                                         *)
(***************************************************************************)
\* How many times main is called.
MaxMains == 3

\* A main that does not look at the global.
main_fresh ==
    /\ main_calls < MaxMains
    /\ main_calls' = main_calls + 1
    /\ socket_server' = socket_server + 1
    /\ UNCHANGED <<server_vars, client_vars, cur, parked, exec_vars, host_vars, lsock, apc,
                   spc, log, accepted>>

\* global socket_server; if socket_server is None: socket_server =
\* C4DSocketServer()
main ==
    /\ main_calls < MaxMains
    /\ main_calls' = main_calls + 1
    /\ socket_server' = IF socket_server = 0 THEN 1 ELSE socket_server
    /\ UNCHANGED <<server_vars, client_vars, cur, parked, exec_vars, host_vars, lsock, apc,
                   spc, log, accepted>>

\* socket_server.start(), in the branch that has made the server
main_start == socket_server # 0 /\ start

main_start_error == socket_server # 0 /\ start_error

\* Nothing in the plugin calls stop.
NextMain ==
    \/ main
    \/ main_start
    \/ main_start_error
    \/ accept_test
    \/ accept_enter
    \/ accept_client
    \/ accept_error

SpecMain == InitListener /\ [][NextMain]_vars

====
